---- MODULE Spec2Model ----
(***************************************************************************)
(* A model of feishu-docx: the Markdown -> block converter                 *)
(* (core/converters/md_to_blocks.py), the write orchestrator               *)
(* (core/writer.py), the chunked block creation of the SDK (core/sdk.py)   *)
(* and the block -> Markdown renderer (core/parsers/document.py).          *)
(*                                                                         *)
(* Text is a sequence of one-character strings, so that slicing, length    *)
(* and concatenation are the real ones.  A Python dict is a record (a      *)
(* function on its keys); a Markdown document is the token list mistune    *)
(* hands to the converter.                                                 *)
(***************************************************************************)
EXTENDS Integers, Sequences, FiniteSets, TLC

VARIABLES
    \* ---- MarkdownToBlocks (md_to_blocks.py) ----
    markdown_tokens,        \* the token list of the convert call in progress / last made
    converter_image_paths,  \* self.image_paths
    convert_blocks,         \* the blocks the last convert call returned
    convert_images,         \* the image-path list the last convert call returned
    conv_pc,                \* "input" (the tokens are being parsed) | "returned"
    lists,                  \* the list objects the converter has made, by identity
    image_paths_ref,        \* self.image_paths: the identity of the list it refers to
    convert_returns,        \* history: what each convert call on the instance returned
    \* ---- MarkdownToBlocks._extract_text_elements, called on its own ----
    ex_pc,                  \* "idle" | "input" | "returned"
    ex_children,            \* the children argument
    ex_elements,            \* the elements returned
    \* ---- FeishuSDK.create_blocks (sdk.py) ----
    cb_pc,                  \* "idle" | "loop" | "returned" | "raised"
    cb_block_id,            \* the block_id argument (the parent)
    cb_children,            \* the children argument
    cb_index,               \* the index argument
    cb_i,                   \* loop variable i
    current_index,          \* local current_index
    all_created_children,   \* local all_created_children
    requests,               \* history: the creation requests sent, with their outcome
    \* ---- DocumentParser._render_table (document.py) ----
    tb_pc,                  \* "idle" | "scan" | "done"
    row_count, col_count,   \* props.row_size, props.column_size
    merge_infos,            \* props.merge_info
    all_cell_blocks,        \* the table's cell blocks (their ids)
    r_idx, c_idx,           \* loop variables
    visited,                \* visited[r][c]
    grid_data,              \* grid_data[r][c]: <<>> (None) or <<content, r_span, c_span>>
    global_cell_cursor,     \* cursor into all_cell_blocks
    handled,                \* history: how often the scan handled each position
    \* ---- DocumentParser rendering (document.py) ----
    rd_pc,                  \* "idle" | "render" | "done"
    rd_blocks,              \* the blocks still to render, in pre-order
    last_order_seq,         \* self.last_order_seq
    rendered,               \* the Markdown rendered for each block so far
    rd_seen,                \* history: the counter before each rendered block
    export_board_metadata,  \* self.export_board_metadata
    parse_returns,          \* history: what each parse call on the parser returned
    \* ---- FeishuWriter.write_content (writer.py) ----
    w_pc,                   \* position inside write_content
    w_append,               \* the append argument
    w_blocks,               \* local blocks (after _prepare_table_blocks)
    w_image_paths,          \* local image_paths
    table_plans,            \* local table_plans
    created_blocks,         \* local created_blocks
    resolved_table_blocks,  \* local resolved_table_blocks
    w_table,                \* position of the zip(created_table_blocks, table_plans) loop
    w_cell_ids,             \* _fill_table_cells: cell_ids
    w_idx,                  \* _fill_table_cells: idx
    w_ordered_blocks,       \* local ordered_blocks
    w_image_blocks,         \* local image_blocks
    w_i,                    \* image loop variable i
    w_result,               \* "running" | "returned" | "raised"
    use_native_api,         \* the use_native_api argument
    bl_pc,                  \* get_document_block_list: "idle" | "fetch" | "returned" | "raised"
    bl_items,               \* get_document_block_list: local blocks
    doc,                    \* the server's document: block id -> block
    next_id,                \* the server's next fresh block id
    file_exists,            \* the local image paths that exist on disk
    calls,                  \* history: the SDK calls made, with their outcome
    \* ---- FeishuSDK.clear_document and FeishuSDK.upload_image (sdk.py) ----
    sdk_calls,              \* history: the number of calls started
    cl_pc,                  \* clear_document: "idle" | "loop" | "returned" | "raised"
    cl_batch_size,          \* the batch_size argument
    cl_max_rounds,          \* the max_rounds argument
    rounds,                 \* local rounds
    deleted_total,          \* local deleted_total
    cl_log,                 \* history: the root's children and the outcome of each round
    up_pc,                  \* upload_image: "idle" | "first" | "second" | "returned" | "raised"
    up_parent_node,         \* the parent_node argument
    up_attempts,            \* history: the _try_upload calls, with their outcome
    up_token                \* the file token returned

heapVars == <<lists, image_paths_ref, convert_returns>>
convVars == <<markdown_tokens, converter_image_paths, convert_blocks, convert_images,
              conv_pc, heapVars>>
exVars == <<ex_pc, ex_children, ex_elements>>
cbVars == <<cb_pc, cb_block_id, cb_children, cb_index, cb_i, current_index, all_created_children,
            requests>>
tbVars == <<tb_pc, row_count, col_count, merge_infos, all_cell_blocks, r_idx, c_idx,
            visited, grid_data, global_cell_cursor, handled>>
rdVars == <<rd_pc, rd_blocks, last_order_seq, rendered, rd_seen, export_board_metadata,
            parse_returns>>
wVars == <<w_pc, w_append, w_blocks, w_image_paths, table_plans, created_blocks,
           resolved_table_blocks, w_table, w_cell_ids, w_idx, w_ordered_blocks, w_image_blocks, w_i,
           w_result, file_exists, calls, use_native_api, bl_pc, bl_items>>
srvVars == <<doc, next_id>>
sdkVars == <<sdk_calls, cl_pc, cl_batch_size, cl_max_rounds, rounds, deleted_total, cl_log,
             up_pc, up_parent_node, up_attempts, up_token>>
vars == <<convVars, exVars, cbVars, tbVars, rdVars, wVars, srvVars, sdkVars>>

(***************************************************************************)
(* Python helpers                                                          *)
(***************************************************************************)
None == "None"

Min(a, b) == IF a <= b THEN a ELSE b
Max(a, b) == IF a >= b THEN a ELSE b

\* dict.get(key, default)
Get(d, key, default) == IF key \in DOMAIN d THEN d[key] ELSE default

\* The sequence s[lo..hi-1] of Python (0-based, hi clipped to the length).
Slice(s, lo, hi) == SubSeq(s, lo + 1, Min(hi, Len(s)))

RECURSIVE Concat(_)
Concat(ss) == IF ss = <<>> THEN <<>> ELSE Head(ss) \o Concat(Tail(ss))

(***************************************************************************)
(* Block schema (md_to_blocks.py 39-83)                                    *)
(***************************************************************************)
BLOCK_TYPE_PAGE == 1
BLOCK_TYPE_TEXT == 2
BLOCK_TYPE_HEADING1 == 3
BLOCK_TYPE_HEADING9 == 11
BLOCK_TYPE_BULLET == 12
BLOCK_TYPE_ORDERED == 13
BLOCK_TYPE_CODE == 14
BLOCK_TYPE_QUOTE == 15
BLOCK_TYPE_TODO == 17
BLOCK_TYPE_DIVIDER == 22
BLOCK_TYPE_IMAGE == 27
BLOCK_TYPE_TABLE == 31
BLOCK_TYPE_TABLE_CELL == 32

\* The code languages the model's documents use, of LANGUAGE_MAP.
LANGUAGE_MAP == [python |-> 49, go |-> 13, json |-> 23]

\* str.lower() on the info strings of the model's documents.
Lower(s) == CASE s = "Python" -> "python"
              [] s = "GO" -> "go"
              [] OTHER -> s

(***************************************************************************)
(* Text: sequences of one-character strings                                *)
(***************************************************************************)
Whitespace == {" ", "\t", "\n", "\r"}

\* str.strip()
Strip(s) ==
    LET keep == {i \in 1..Len(s) : s[i] \notin Whitespace}
    IN IF keep = {} THEN <<>>
       ELSE LET lo == CHOOSE i \in keep : \A j \in keep : i <= j
                hi == CHOOSE i \in keep : \A j \in keep : i >= j
            IN SubSeq(s, lo, hi)

\* The lower-case form of the letters the remote-URL pattern names
\* (re.IGNORECASE).
LowerChar(c) == CASE c = "H" -> "h" [] c = "T" -> "t" [] c = "P" -> "p"
                  [] c = "S" -> "s" [] c = "D" -> "d" [] c = "A" -> "a"
                  [] OTHER -> c

\* re.match of a literal prefix at the start of s, ignoring case.
MatchPrefix(s, prefix) ==
    /\ Len(s) >= Len(prefix)
    /\ \A i \in 1..Len(prefix) : LowerChar(s[i]) = prefix[i]

\* text.replace("\r\n", " ").replace("\n", " ").replace("\r", " ")
RECURSIVE ReplaceCrLf(_)
ReplaceCrLf(s) ==
    IF Len(s) >= 2 /\ s[1] = "\r" /\ s[2] = "\n"
    THEN <<" ">> \o ReplaceCrLf(SubSeq(s, 3, Len(s)))
    ELSE IF s = <<>> THEN <<>> ELSE <<Head(s)>> \o ReplaceCrLf(Tail(s))

MapNewlines(t) == [i \in 1..Len(t) |-> IF t[i] \in {"\n", "\r"} THEN " " ELSE t[i]]

ReplaceNewlines(s) ==
    MapNewlines(IF \E i \in 1..(Len(s) - 1) : s[i] = "\r" /\ s[i + 1] = "\n"
                THEN ReplaceCrLf(s) ELSE s)

(***************************************************************************)
(* MarkdownToBlocks (md_to_blocks.py)                                      *)
(*                                                                         *)
(* A method that appends to self.image_paths takes the list and returns    *)
(* it with its result.  A method that returns a dict, a list or None       *)
(* returns the list of its blocks here (None and [] are both skipped by    *)
(* convert, a dict is wrapped by it).                                      *)
(***************************************************************************)
limit == 2000

TextRun(content, style) ==
    [text_run |-> [content |-> content, text_element_style |-> style]]

\* style = {k: v for k, v in style.items() if v}
Truthy(k, v) == IF k = "link" THEN DOMAIN v # {} ELSE v
FilterStyle(style) ==
    [k \in {x \in DOMAIN style : Truthy(x, style[x])} |-> style[k]]

\* new_style = style.copy(); new_style[key] = value
WithStyle(style, key, value) == (key :> value) @@ style

\* md_to_blocks.py 481-496: the runs of one leaf
_leaf_runs(text_content, current_style) ==
    IF Len(text_content) > limit
    THEN [k \in 1..((Len(text_content) + limit - 1) \div limit) |->
            TextRun(Slice(text_content, (k - 1) * limit, (k - 1) * limit + limit),
                    current_style)]
    ELSE <<TextRun(text_content, current_style)>>

\* md_to_blocks.py 473-496: a text or codespan leaf
_extract_leaf(child, style) ==
    _leaf_runs(ReplaceNewlines(IF Get(child, "text", <<>>) # <<>> THEN child.text
                               ELSE Get(child, "raw", <<>>)),
               IF child.type = "codespan"
               THEN WithStyle(style, "inline_code", TRUE) ELSE style)

\* md_to_blocks.py 513-525: a link
RECURSIVE _extract_text_elements(_, _)
_extract_link(child, style) ==
    LET url == Get(Get(child, "attrs", <<>>), "url", <<>>)
        new_style == WithStyle(style, "link", [url |-> url])
    IN IF Get(child, "children", <<>>) = <<>>
       THEN <<TextRun(url, new_style)>>
       ELSE _extract_text_elements(child.children, new_style)

_extract_child(child, style) ==
    CASE child.type \in {"text", "codespan"} -> _extract_leaf(child, style)
      [] child.type = "strong" ->
           _extract_text_elements(Get(child, "children", <<>>),
                                  WithStyle(style, "bold", TRUE))
      [] child.type = "emphasis" ->
           _extract_text_elements(Get(child, "children", <<>>),
                                  WithStyle(style, "italic", TRUE))
      [] child.type = "strikethrough" ->
           _extract_text_elements(Get(child, "children", <<>>),
                                  WithStyle(style, "strikethrough", TRUE))
      [] child.type = "link" -> _extract_link(child, style)
      [] OTHER -> <<>>

_extract_text_elements(children, style0) ==
    LET style == FilterStyle(style0)
    IN Concat([i \in 1..Len(children) |-> _extract_child(children[i], style)])

\* md_to_blocks.py 155-158
_is_remote_url(url) ==
    LET u == Strip(url)
    IN \/ MatchPrefix(u, <<"h", "t", "t", "p", ":", "/", "/">>)
       \/ MatchPrefix(u, <<"h", "t", "t", "p", "s", ":", "/", "/">>)
       \/ MatchPrefix(u, <<"/", "/">>)
       \/ MatchPrefix(u, <<"d", "a", "t", "a", ":">>)

\* A variant of _make_image that records the path before it tests for a
\* remote URL.
_make_image_append_first(token, paths) ==
    LET url == Get(Get(token, "attrs", <<>>), "url", <<>>)
    IN IF url = <<>> THEN [blocks |-> <<>>, image_paths |-> paths]
       ELSE IF _is_remote_url(url)
       THEN [blocks |-> <<[block_type |-> BLOCK_TYPE_TEXT,
                           text |-> [elements |->
                               <<TextRun(<<"!", "[", "I", "m", "a", "g", "e", "]", "(">>
                                         \o url \o <<")">>, <<>>)>>]]>>,
             image_paths |-> Append(paths, url)]
       ELSE [blocks |-> <<[block_type |-> BLOCK_TYPE_IMAGE, image |-> <<>>,
                           emitted_for |-> Len(paths) + 1]>>,
             image_paths |-> Append(paths, url)]

\* md_to_blocks.py 230-255.  emitted_for is a history field, read by no
\* modelled code: the position in image_paths of the path the placeholder
\* was emitted for.
_make_image(token, paths) ==
    LET url == Get(Get(token, "attrs", <<>>), "url", <<>>)
    IN IF url = <<>> THEN [blocks |-> <<>>, image_paths |-> paths]
       ELSE IF _is_remote_url(url)
       THEN [blocks |-> <<[block_type |-> BLOCK_TYPE_TEXT,
                           text |-> [elements |->
                               <<TextRun(<<"!", "[", "I", "m", "a", "g", "e", "]", "(">>
                                         \o url \o <<")">>, <<>>)>>]]>>,
             image_paths |-> paths]
       ELSE [blocks |-> <<[block_type |-> BLOCK_TYPE_IMAGE, image |-> <<>>,
                           emitted_for |-> Len(paths) + 1]>>,
             image_paths |-> Append(paths, url)]

\* md_to_blocks.py 187-199
HeadingKey(level) == CASE level = 1 -> "heading1" [] level = 2 -> "heading2"
                       [] level = 3 -> "heading3" [] level = 4 -> "heading4"
                       [] level = 5 -> "heading5" [] level = 6 -> "heading6"
                       [] level = 7 -> "heading7" [] level = 8 -> "heading8"
                       [] level = 9 -> "heading9"

_make_heading(token) ==
    LET level == Min(Max(Get(Get(token, "attrs", <<>>), "level", 1), 1), 6)
        elements == _extract_text_elements(Get(token, "children", <<>>), <<>>)
    IN [block_type |-> BLOCK_TYPE_HEADING1 + level - 1]
       @@ (HeadingKey(level) :> [elements |-> elements])

TextBlock(elements) == [block_type |-> BLOCK_TYPE_TEXT, text |-> [elements |-> elements]]

\* md_to_blocks.py 201-228: the loop over the paragraph's children, with
\* the locals blocks and current_elements.
RECURSIVE _make_paragraph_loop(_, _, _, _)
_make_paragraph_loop(children, blocks, current_elements, paths) ==
    IF children = <<>>
    THEN [blocks |-> IF current_elements # <<>>
                     THEN Append(blocks, TextBlock(current_elements)) ELSE blocks,
          image_paths |-> paths]
    ELSE LET child == Head(children)
         IN IF child.type = "image"
            THEN LET flushed == IF current_elements # <<>>
                                THEN Append(blocks, TextBlock(current_elements))
                                ELSE blocks
                     img == _make_image(child, paths)
                 IN _make_paragraph_loop(Tail(children), flushed \o img.blocks, <<>>,
                                         img.image_paths)
            ELSE _make_paragraph_loop(Tail(children), blocks,
                     current_elements \o _extract_text_elements(<<child>>, <<>>), paths)

\* A variant of _make_paragraph that keeps the text blocks alone.
_make_paragraph_text_only(token, paths) ==
    LET r == _make_paragraph_loop(Get(token, "children", <<>>), <<>>, <<>>, paths)
    IN [blocks |-> SelectSeq(r.blocks, LAMBDA blk : blk.block_type = BLOCK_TYPE_TEXT),
        image_paths |-> r.image_paths]

_make_paragraph(token, paths) ==
    _make_paragraph_loop(Get(token, "children", <<>>), <<>>, <<>>, paths)

\* md_to_blocks.py 257-286: the loop over the inline children of one
\* paragraph / block_text of a list item.
RECURSIVE _make_list_subs(_, _, _, _)
_make_list_subs(subs, elements, image_blocks, paths) ==
    IF subs = <<>>
    THEN [elements |-> elements, image_blocks |-> image_blocks, image_paths |-> paths]
    ELSE LET sub == Head(subs)
         IN IF sub.type = "image"
            THEN LET img == _make_image(sub, paths)
                 IN _make_list_subs(Tail(subs), elements, image_blocks \o img.blocks,
                                    img.image_paths)
            ELSE _make_list_subs(Tail(subs),
                                 elements \o _extract_text_elements(<<sub>>, <<>>),
                                 image_blocks, paths)

\* the loop over the children of one list item
RECURSIVE _make_list_item(_, _, _, _)
_make_list_item(item_children, elements, image_blocks, paths) ==
    IF item_children = <<>>
    THEN [elements |-> elements, image_blocks |-> image_blocks, image_paths |-> paths]
    ELSE LET child == Head(item_children)
         IN IF child.type \in {"paragraph", "block_text"}
            THEN LET r == _make_list_subs(Get(child, "children", <<>>), elements,
                                          image_blocks, paths)
                 IN _make_list_item(Tail(item_children), r.elements, r.image_blocks,
                                    r.image_paths)
            ELSE _make_list_item(Tail(item_children), elements, image_blocks, paths)

\* the blocks of one list item: its text block, then its image blocks
_make_list_item_blocks(block_type, list_key, elements, image_blocks) ==
    (IF elements # <<>>
     THEN <<[block_type |-> block_type] @@ (list_key :> [elements |-> elements])>>
     ELSE <<>>)
    \o image_blocks

RECURSIVE _make_list_items(_, _, _, _, _)
_make_list_items(items, block_type, list_key, blocks, paths) ==
    IF items = <<>> THEN [blocks |-> blocks, image_paths |-> paths]
    ELSE LET item == Head(items)
         IN IF item.type = "list_item"
            THEN LET r == _make_list_item(Get(item, "children", <<>>), <<>>, <<>>, paths)
                 IN _make_list_items(Tail(items), block_type, list_key,
                        blocks \o _make_list_item_blocks(block_type, list_key,
                                                         r.elements, r.image_blocks),
                        r.image_paths)
            ELSE _make_list_items(Tail(items), block_type, list_key, blocks, paths)

_make_list(token, paths) ==
    LET ordered == Get(Get(token, "attrs", <<>>), "ordered", FALSE)
    IN _make_list_items(Get(token, "children", <<>>),
                        IF ordered THEN BLOCK_TYPE_ORDERED ELSE BLOCK_TYPE_BULLET,
                        IF ordered THEN "ordered" ELSE "bullet", <<>>, paths)

\* md_to_blocks.py 288-300
_make_code_block(token) ==
    LET raw_text == Get(token, "raw", <<>>)
        lang == Lower(Get(Get(token, "attrs", <<>>), "info", ""))
        lang_code == Get(LANGUAGE_MAP, lang, 1)
    IN [block_type |-> BLOCK_TYPE_CODE,
        code |-> [elements |-> <<[text_run |-> [content |-> raw_text]]>>,
                  style |-> [language |-> lang_code]]]

\* md_to_blocks.py 302-314
_make_quote(token) ==
    LET paragraphs == SelectSeq(Get(token, "children", <<>>),
                                LAMBDA c : c.type = "paragraph")
    IN [block_type |-> BLOCK_TYPE_QUOTE,
        quote |-> [elements |->
            Concat([i \in 1..Len(paragraphs) |->
                _extract_text_elements(Get(paragraphs[i], "children", <<>>), <<>>)])]]

\* md_to_blocks.py 316-321
_make_divider == [block_type |-> BLOCK_TYPE_DIVIDER, divider |-> <<>>]

\* md_to_blocks.py 365-401: table_cell_children; flush_inline is the
\* append of a text block for a non-empty inline_buffer.
flush_inline(blocks, inline_buffer) ==
    IF inline_buffer = <<>> THEN blocks
    ELSE Append(blocks, TextBlock(_extract_text_elements(inline_buffer, <<>>)))

RECURSIVE table_cell_children_loop(_, _, _, _)
table_cell_children_loop(cell_children, blocks, inline_buffer, paths) ==
    IF cell_children = <<>>
    THEN [blocks |-> flush_inline(blocks, inline_buffer), image_paths |-> paths]
    ELSE LET child == Head(cell_children)
         IN IF child.type = "image"
            THEN LET img == _make_image(child, paths)
                 IN table_cell_children_loop(Tail(cell_children),
                        flush_inline(blocks, inline_buffer) \o img.blocks, <<>>,
                        img.image_paths)
            ELSE table_cell_children_loop(Tail(cell_children), blocks,
                                          Append(inline_buffer, child), paths)

\* A variant of table_cell_children without the default block of a cell
\* that yields none.
table_cell_children_no_default(cell_children, paths) ==
    table_cell_children_loop(cell_children, <<>>, <<>>, paths)

table_cell_children(cell_children, paths) ==
    LET r == table_cell_children_loop(cell_children, <<>>, <<>>, paths)
    IN [blocks |-> IF r.blocks = <<>> THEN <<TextBlock(<<>>)>> ELSE r.blocks,
        image_paths |-> r.image_paths]

\* md_to_blocks.py 403-435: normalize_rows
RowsOf(row_tokens) ==
    LET kept == SelectSeq(row_tokens, LAMBDA row : row.type \in {"table_row", "table_cell"})
    IN [i \in 1..Len(kept) |->
          IF kept[i].type = "table_row" THEN Get(kept[i], "children", <<>>)
          ELSE <<kept[i]>>]

normalize_part(part) ==
    LET children == Get(part, "children", <<>>)
    IN CASE part.type = "table_head" ->
              IF children = <<>> THEN <<>>
              ELSE IF \A i \in 1..Len(children) : children[i].type = "table_cell"
              THEN <<children>>
              ELSE RowsOf(children)
         [] part.type = "table_body" -> RowsOf(children)
         [] OTHER -> <<>>

normalize_rows(table_token) ==
    LET parts == Get(table_token, "children", <<>>)
    IN Concat([i \in 1..Len(parts) |-> normalize_part(parts[i])])

\* md_to_blocks.py 441-451: the cells, row-major; n counts the positions
\* from 0.
RECURSIVE _make_table_cells(_, _, _, _, _)
_make_table_cells(rows, col_count_, n, cell_blocks, paths) ==
    IF n >= Len(rows) * col_count_
    THEN [cell_blocks |-> cell_blocks, image_paths |-> paths]
    ELSE LET r == n \div col_count_
             c == n % col_count_
             row == rows[r + 1]
             cell_children_tokens ==
                 IF c < Len(row) THEN Get(row[c + 1], "children", <<>>) ELSE <<>>
             cell == table_cell_children(cell_children_tokens, paths)
         IN _make_table_cells(rows, col_count_, n + 1,
                Append(cell_blocks, [block_type |-> BLOCK_TYPE_TABLE_CELL,
                                     table_cell |-> <<>>,
                                     children |-> cell.blocks]),
                cell.image_paths)

\* md_to_blocks.py 363-457
MaxOf(S) == IF S = {} THEN 0 ELSE CHOOSE x \in S : \A y \in S : x >= y

_make_table(token, paths) ==
    LET rows == normalize_rows(token)
        row_count_ == Len(rows)
        col_count_ == MaxOf({Len(rows[i]) : i \in 1..Len(rows)})
        cells == _make_table_cells(rows, col_count_, 0, <<>>, paths)
    IN [blocks |-> <<[block_type |-> BLOCK_TYPE_TABLE,
                      table |-> [property |-> [row_size |-> row_count_,
                                               column_size |-> col_count_]],
                      children |-> cells.cell_blocks]>>,
        image_paths |-> cells.image_paths]

\* md_to_blocks.py 160-185
_convert_token(token, paths) ==
    CASE token.type = "heading" ->
           [blocks |-> <<_make_heading(token)>>, image_paths |-> paths]
      [] token.type = "paragraph" -> _make_paragraph(token, paths)
      [] token.type = "list" -> _make_list(token, paths)
      [] token.type = "block_code" ->
           [blocks |-> <<_make_code_block(token)>>, image_paths |-> paths]
      [] token.type = "block_quote" ->
           [blocks |-> <<_make_quote(token)>>, image_paths |-> paths]
      [] token.type = "thematic_break" ->
           [blocks |-> <<_make_divider>>, image_paths |-> paths]
      [] token.type = "table" -> _make_table(token, paths)
      [] token.type = "image" -> _make_image(token, paths)
      [] OTHER -> [blocks |-> <<>>, image_paths |-> paths]

\* md_to_blocks.py 115-138: the filter of convert
TextLikeTypes ==
    (BLOCK_TYPE_TEXT..BLOCK_TYPE_HEADING9)
        \cup {BLOCK_TYPE_BULLET, BLOCK_TYPE_ORDERED, BLOCK_TYPE_QUOTE, BLOCK_TYPE_TODO}

PayloadKey(b) ==
    IF DOMAIN b \ {"block_type"} = {} THEN None
    ELSE CHOOSE k \in DOMAIN b \ {"block_type"} : TRUE

KeepBlock(b) ==
    ~ ( /\ b.block_type \in TextLikeTypes
        /\ PayloadKey(b) # None
        /\ Get(b[PayloadKey(b)], "elements", <<>>) = <<>> )

\* md_to_blocks.py 93-140: self.image_paths = [] and the loop over the tokens
RECURSIVE convert_loop(_, _, _)
convert_loop(tokens, blocks, paths) ==
    IF tokens = <<>> THEN [blocks |-> blocks, image_paths |-> paths]
    ELSE LET r == _convert_token(Head(tokens), paths)
         IN convert_loop(Tail(tokens), blocks \o SelectSeq(r.blocks, KeepBlock),
                         r.image_paths)

convert(tokens) == convert_loop(tokens, <<>>, <<>>)

(***************************************************************************)
(* The Markdown documents of the model: token lists as mistune builds them *)
(***************************************************************************)
MaxTokens == 2

\* A text of n characters.
TextOf(n) == [i \in 1..n |-> IF i % 3 = 1 THEN "a" ELSE IF i % 3 = 2 THEN "b" ELSE "c"]

Text(raw) == [type |-> "text", raw |-> raw]
Image(url) == [type |-> "image", children |-> <<Text(<<"x">>)>>, attrs |-> [url |-> url]]

LocalUrl1 == <<".", "/", "p", "1">>
LocalUrl2 == <<"p", "2">>
RemoteUrl == <<" ", "H", "t", "t", "p", "s", ":", "/", "/", "h">>

Paragraph(children) == [type |-> "paragraph", children |-> children]
Cell(children) == [type |-> "table_cell", children |-> children]

BlockTokens ==
    { Paragraph(<<Text(<<"a">>), Image(LocalUrl1), Text(<<"b", "\r", "\n", "c">>)>>),
      Paragraph(<<Image(RemoteUrl), Image(LocalUrl2), Image(<<>>)>>),
      Paragraph(<<[type |-> "strong",
                   children |-> <<[type |-> "emphasis",
                                   children |-> <<Text(<<"s">>)>>]>>],
                  [type |-> "codespan", raw |-> <<"c">>]>>),
      Paragraph(<<[type |-> "link", children |-> <<>>, attrs |-> [url |-> LocalUrl2]]>>),
      Paragraph(<<[type |-> "link", children |-> <<Image(LocalUrl1), Text(<<"t">>)>>,
                   attrs |-> [url |-> RemoteUrl]],
                  [type |-> "softbreak"]>>),
      [type |-> "heading", attrs |-> [level |-> 2],
       children |-> <<Text(<<"h">>), Image(LocalUrl2)>>],
      [type |-> "list", attrs |-> [ordered |-> TRUE],
       children |-> <<[type |-> "list_item",
                       children |-> <<[type |-> "block_text",
                                       children |-> <<Image(LocalUrl1), Text(<<"i">>),
                                                      Image(LocalUrl2)>>]>>],
                      [type |-> "list_item",
                       children |-> <<[type |-> "paragraph",
                                       children |-> <<Image(LocalUrl2)>>]>>]>>],
      [type |-> "table",
       children |-> <<[type |-> "table_head",
                       children |-> <<Cell(<<Text(<<"k">>)>>),
                                      Cell(<<Image(LocalUrl1), Text(<<"v">>),
                                             Image(LocalUrl2)>>)>>],
                      [type |-> "table_body",
                       children |-> <<[type |-> "table_row",
                                       children |-> <<Cell(<<Image(LocalUrl2)>>)>>]>>]>>],
      [type |-> "block_quote",
       children |-> <<Paragraph(<<Text(<<"q">>), Image(LocalUrl1)>>)>>],
      [type |-> "block_code", raw |-> <<"x", "\n">>, attrs |-> [info |-> "Python"]],
      [type |-> "thematic_break"],
      [type |-> "blank_line"] }

(***************************************************************************)
(* Idle values: the variables of the components a specification leaves    *)
(* alone.                                                                  *)
(***************************************************************************)
\* md_to_blocks.py 91: the list __init__ makes is the first list object.
HeapInit == lists = << <<>> >> /\ image_paths_ref = 1 /\ convert_returns = <<>>

ConvIdle ==
    /\ HeapInit
    /\ markdown_tokens = <<>> /\ converter_image_paths = <<>>
    /\ convert_blocks = <<>> /\ convert_images = <<>> /\ conv_pc = "input"

ExIdle == ex_pc = "idle" /\ ex_children = <<>> /\ ex_elements = <<>>

CbIdle ==
    /\ cb_pc = "idle" /\ cb_block_id = 0 /\ cb_children = <<>> /\ cb_index = -1 /\ cb_i = 0
    /\ current_index = -1 /\ all_created_children = <<>> /\ requests = <<>>

TbIdle ==
    /\ tb_pc = "idle" /\ row_count = 0 /\ col_count = 0 /\ merge_infos = <<>>
    /\ all_cell_blocks = <<>> /\ r_idx = 0 /\ c_idx = 0 /\ visited = <<>>
    /\ grid_data = <<>> /\ global_cell_cursor = 0 /\ handled = <<>>

RdIdle ==
    /\ rd_pc = "idle" /\ rd_blocks = <<>> /\ last_order_seq = 1
    /\ rendered = <<>> /\ rd_seen = <<>> /\ export_board_metadata = FALSE /\ parse_returns = <<>>

WIdle ==
    /\ w_pc = "idle" /\ w_append = TRUE /\ w_blocks = <<>> /\ w_image_paths = <<>>
    /\ table_plans = <<>> /\ created_blocks = <<>> /\ resolved_table_blocks = <<>>
    /\ w_table = 0 /\ w_cell_ids = <<>> /\ w_idx = 0 /\ w_image_blocks = <<>>
    /\ w_ordered_blocks = <<>>
    /\ w_i = 0 /\ w_result = "running" /\ file_exists = {} /\ calls = <<>>
    /\ use_native_api = TRUE /\ bl_pc = "idle" /\ bl_items = <<>>

SrvIdle == doc = <<>> /\ next_id = 1

SdkIdle ==
    /\ sdk_calls = 0 /\ cl_pc = "idle" /\ cl_batch_size = 0 /\ cl_max_rounds = 0
    /\ rounds = 0 /\ deleted_total = 0 /\ cl_log = <<>>
    /\ up_pc = "idle" /\ up_parent_node = 0 /\ up_attempts = <<>> /\ up_token = None

(***************************************************************************)
(* SpecConvert: one MarkdownToBlocks instance converting a document        *)
(***************************************************************************)
\* __init__ (md_to_blocks.py 85-91), before the first convert call
ConvInit ==
    /\ ConvIdle /\ ExIdle /\ CbIdle /\ TbIdle /\ RdIdle /\ WIdle /\ SrvIdle
    /\ SdkIdle

\* self._md.parse(markdown_text) (md_to_blocks.py 104): mistune is outside
\* the repository; the token list it returns is the input, chosen token by
\* token.
ParseToken ==
    /\ conv_pc = "input"
    /\ Len(markdown_tokens) < MaxTokens
    /\ \E t \in BlockTokens : markdown_tokens' = Append(markdown_tokens, t)
    /\ UNCHANGED <<converter_image_paths, convert_blocks, convert_images, conv_pc, heapVars>>
    /\ UNCHANGED <<exVars, cbVars, tbVars, rdVars, wVars, srvVars, sdkVars>>

\* MarkdownToBlocks.convert (md_to_blocks.py 93-140)
Convert ==
    /\ conv_pc = "input"
    /\ LET r == convert(markdown_tokens)
       IN /\ converter_image_paths' = r.image_paths
          /\ convert_blocks' = r.blocks
          /\ convert_images' = r.image_paths
    /\ conv_pc' = "returned"
    /\ UNCHANGED <<markdown_tokens, heapVars>>
    /\ UNCHANGED <<exVars, cbVars, tbVars, rdVars, wVars, srvVars, sdkVars>>

ConvNext == ParseToken \/ Convert

SpecConvert == ConvInit /\ [][ConvNext]_vars

(***************************************************************************)
(* SpecExtract: _extract_text_elements on one inline node                  *)
(***************************************************************************)
MaxChunks == 2
MaxWrap == 1

\* Lengths around the multiples of the run limit.
LeafLens == {k * limit + d : k \in 0..MaxChunks, d \in {0, 1}}

Wrappers == {"strong", "emphasis", "strikethrough", "link"}
WrapSeqs == UNION {[1..n -> Wrappers] : n \in 0..MaxWrap}

Leaves ==
    {[type |-> ty, raw |-> TextOf(n)] : ty \in {"text", "codespan"}, n \in LeafLens}
    \cup {[type |-> "link", children |-> <<>>, attrs |-> [url |-> TextOf(n)]] :
             n \in LeafLens}

\* The node ws[1](ws[2](...(leaf))).
RECURSIVE Wrap(_, _)
Wrap(ws, leaf) ==
    IF ws = <<>> THEN leaf
    ELSE [type |-> Head(ws), children |-> <<Wrap(Tail(ws), leaf)>>]
         @@ (IF Head(ws) = "link" THEN [attrs |-> [url |-> LocalUrl1]] ELSE <<>>)

\* The leaf of a wrapped node, and the wrappers around it.
RECURSIVE LeafOf(_)
LeafOf(node) ==
    IF Get(node, "children", <<>>) = <<>> THEN node ELSE LeafOf(node.children[1])

RECURSIVE WrappersOf(_)
WrappersOf(node) ==
    IF Get(node, "children", <<>>) = <<>> THEN {}
    ELSE {node.type} \cup WrappersOf(node.children[1])

ExInit ==
    /\ ex_pc = "input"
    /\ \E ws \in WrapSeqs, leaf \in Leaves : ex_children = <<Wrap(ws, leaf)>>
    /\ ex_elements = <<>>
    /\ ConvIdle /\ CbIdle /\ TbIdle /\ RdIdle /\ WIdle /\ SrvIdle
    /\ SdkIdle

\* _extract_text_elements(children) with style=None (md_to_blocks.py 459-533)
Extract ==
    /\ ex_pc = "input"
    /\ ex_elements' = _extract_text_elements(ex_children, <<>>)
    /\ ex_pc' = "returned"
    /\ UNCHANGED ex_children
    /\ UNCHANGED <<convVars, cbVars, tbVars, rdVars, wVars, srvVars, sdkVars>>

ExNext == Extract

SpecExtract == ExInit /\ [][ExNext]_vars

(***************************************************************************)
(* The vendor's document store, as the SDK's calls see it.  doc maps the   *)
(* id of every live block to the block; the root (page) block has the      *)
(* document's id.                                                          *)
(***************************************************************************)
document_id == 0

NewBlock(id, parent, desc, children) ==
    [block_id |-> id, block_type |-> desc.block_type, parent_id |-> parent,
     children |-> children, desc |-> desc]

\* A document whose root holds blocks of the given types.
InitialDoc(types) ==
    [i \in 0..Len(types) |->
        IF i = 0
        THEN NewBlock(document_id, document_id, [block_type |-> BLOCK_TYPE_PAGE],
                      [k \in 1..Len(types) |-> k])
        ELSE NewBlock(i, document_id, [block_type |-> types[i]], <<>>)]

InsertAt(seq, pos, items) ==
    SubSeq(seq, 1, pos) \o items \o SubSeq(seq, pos + 1, Len(seq))

\* The blocks the vendor creates for the descriptors of one request, each
\* with a fresh id; a table comes with its row_size * column_size cells.
RECURSIVE ServerCreate(_, _, _, _, _)
ServerCreate(d, nid, parent, chunk, acc) ==
    IF chunk = <<>> THEN [doc |-> d, next_id |-> nid, ids |-> acc]
    ELSE LET desc == Head(chunk)
             ncells == IF desc.block_type = BLOCK_TYPE_TABLE
                       THEN desc.table.property.row_size
                            * desc.table.property.column_size
                       ELSE 0
             added == [i \in nid..(nid + ncells) |->
                          IF i = nid
                          THEN NewBlock(nid, parent, desc, [k \in 1..ncells |-> nid + k])
                          ELSE NewBlock(i, nid,
                                        [block_type |-> BLOCK_TYPE_TABLE_CELL,
                                         table_cell |-> <<>>], <<>>)]
         IN ServerCreate(d @@ added, nid + ncells + 1, parent, Tail(chunk),
                         Append(acc, nid))

\* The store after a successful creation request: the new blocks are put
\* at the request's index among the parent's children, at the end when
\* the request carries none.
ServerCreateChildren(d, nid, request) ==
    LET r == ServerCreate(d, nid, request.block_id, request.children, <<>>)
        old == d[request.block_id].children
        pos == IF "index" \in DOMAIN request THEN request.index ELSE Len(old)
    IN [doc |-> [r.doc EXCEPT ![request.block_id].children = InsertAt(old, pos, r.ids)],
        next_id |-> r.next_id, ids |-> r.ids]

\* A request the vendor can accept: the parent exists and the index is a
\* position among its children.
Acceptable(d, request) ==
    /\ request.block_id \in DOMAIN d
    /\ "index" \in DOMAIN request => request.index <= Len(d[request.block_id].children)

\* The "children" of a creation response: the created blocks as dicts.  A
\* created table may carry its cell ids as children, as table.cells, or
\* not at all; "short" is a response whose children miss the last cell,
\* the count mismatch _fill_table_cells provides for (writer.py 185-188).
EmbedModes(chunk) ==
    IF \E i \in 1..Len(chunk) : chunk[i].block_type = BLOCK_TYPE_TABLE
    THEN {"children", "cells", "short", "none"} ELSE {"none"}

ResponseBlock(b, embed) ==
    [kind |-> "dict", block_id |-> b.block_id, block_type |-> b.block_type,
     parent_id |-> b.parent_id,
     children |-> IF embed = "children" THEN b.children
                  ELSE IF embed = "short" THEN SubSeq(b.children, 1, Len(b.children) - 1)
                  ELSE <<>>,
     table |-> [cells |-> IF embed = "cells" THEN b.children ELSE <<>>]]

Response(d, ids, embed) == [i \in 1..Len(ids) |-> ResponseBlock(d[ids[i]], embed)]

(***************************************************************************)
(* FeishuSDK.create_blocks (sdk.py 302-373)                                *)
(***************************************************************************)
chunk_size == 50

\* A variant of _advance_index that leaves the index where it was.
_advance_index_stuck(index, chunk) == index

\* sdk.py 370-371
_advance_index(index, chunk) == IF index >= 0 THEN index + Len(chunk) ELSE index

\* sdk.py 333
CbChunk == Slice(cb_children, cb_i, cb_i + chunk_size)

\* sdk.py 334-345: the request; it carries an index only when
\* current_index >= 0.
CbRequest ==
    [block_id |-> cb_block_id, children |-> CbChunk]
    @@ (IF current_index >= 0 THEN [index |-> current_index] ELSE <<>>)

\* The call: sdk.py 328-330.
CbCall(block_id, children, index) ==
    /\ cb_pc' = "loop" /\ cb_block_id' = block_id /\ cb_children' = children
    /\ cb_index' = index /\ cb_i' = 0 /\ current_index' = index
    /\ all_created_children' = <<>>

\* One pass of the loop whose request the vendor accepts and answers with
\* JSON (sdk.py 332-371).
CreateChunkOk ==
    /\ cb_pc = "loop" /\ cb_i < Len(cb_children)
    /\ Acceptable(doc, CbRequest)
    /\ \E embed \in EmbedModes(CbChunk) :
          LET r == ServerCreateChildren(doc, next_id, CbRequest)
          IN /\ doc' = r.doc /\ next_id' = r.next_id
             /\ all_created_children' =
                    all_created_children \o Response(r.doc, r.ids, embed)
    /\ requests' = Append(requests, CbRequest @@ [outcome |-> "ok"])
    /\ current_index' = _advance_index(current_index, CbChunk)
    /\ cb_i' = cb_i + chunk_size
    /\ UNCHANGED <<cb_pc, cb_block_id, cb_children, cb_index>>
    /\ UNCHANGED <<convVars, exVars, tbVars, rdVars, wVars, sdkVars>>

\* One pass whose request the vendor accepts but whose response body is
\* not JSON (sdk.py 363-368: the created blocks are not recorded).
CreateChunkUndecodable ==
    /\ cb_pc = "loop" /\ cb_i < Len(cb_children)
    /\ Acceptable(doc, CbRequest)
    /\ LET r == ServerCreateChildren(doc, next_id, CbRequest)
       IN doc' = r.doc /\ next_id' = r.next_id
    /\ requests' = Append(requests, CbRequest @@ [outcome |-> "undecodable"])
    /\ current_index' = _advance_index(current_index, CbChunk)
    /\ cb_i' = cb_i + chunk_size
    /\ UNCHANGED <<cb_pc, cb_block_id, cb_children, cb_index, all_created_children>>
    /\ UNCHANGED <<convVars, exVars, tbVars, rdVars, wVars, sdkVars>>

\* A variant of CreateChunkRejected that goes on with the next chunk.
CreateChunkRejectedGoesOn ==
    /\ cb_pc = "loop" /\ cb_i < Len(cb_children)
    /\ requests' = Append(requests, CbRequest @@ [outcome |-> "rejected"])
    /\ cb_i' = cb_i + chunk_size
    /\ UNCHANGED <<cb_pc, cb_block_id, cb_children, cb_index, current_index,
                   all_created_children>>
    /\ UNCHANGED <<convVars, exVars, tbVars, rdVars, wVars, srvVars, sdkVars>>

\* One pass whose request the vendor rejects (sdk.py 354-361): raise.
CreateChunkRejected ==
    /\ cb_pc = "loop" /\ cb_i < Len(cb_children)
    /\ requests' = Append(requests, CbRequest @@ [outcome |-> "rejected"])
    /\ cb_pc' = "raised"
    /\ UNCHANGED <<cb_block_id, cb_children, cb_index, cb_i, current_index,
                   all_created_children>>
    /\ UNCHANGED <<convVars, exVars, tbVars, rdVars, wVars, srvVars, sdkVars>>

\* The loop is over (sdk.py 373): return all_created_children.
CreateReturn ==
    /\ cb_pc = "loop" /\ cb_i >= Len(cb_children)
    /\ cb_pc' = "returned"
    /\ UNCHANGED <<cb_block_id, cb_children, cb_index, cb_i, current_index,
                   all_created_children, requests>>
    /\ UNCHANGED <<convVars, exVars, tbVars, rdVars, wVars, srvVars, sdkVars>>

(***************************************************************************)
(* SpecCreate: one create_blocks call on the root of a document            *)
(***************************************************************************)
MaxCreateChunks == 2
MaxExisting == 1

\* Numbers of children around the multiples of the chunk size.
ChildCounts ==
    {n \in {k * chunk_size + d : k \in 0..MaxCreateChunks, d \in {-1, 0, 1}} : n >= 0}

\* The n-th descriptor of a call; n is a history field that tells the
\* descriptors apart.
NumberedBlock(i) == [block_type |-> BLOCK_TYPE_TEXT, text |-> [elements |-> <<>>], n |-> i]

CreateInit ==
    /\ \E e \in 0..MaxExisting, n \in ChildCounts, index \in -2..MaxExisting :
          /\ index <= e
          /\ doc = InitialDoc([k \in 1..e |-> BLOCK_TYPE_TEXT])
          /\ next_id = e + 1
          /\ cb_children = [i \in 1..n |-> NumberedBlock(i)]
          /\ cb_index = index /\ current_index = index
    /\ cb_pc = "loop" /\ cb_block_id = document_id /\ cb_i = 0
    /\ all_created_children = <<>> /\ requests = <<>>
    /\ ConvIdle /\ ExIdle /\ TbIdle /\ RdIdle /\ WIdle
    /\ SdkIdle

CreateNext ==
    CreateChunkOk \/ CreateChunkUndecodable \/ CreateChunkRejected \/ CreateReturn

SpecCreate == CreateInit /\ [][CreateNext]_vars

\* The chunks of the requests sent so far, concatenated.
SentChildren == Concat([k \in 1..Len(requests) |-> requests[k].children])

\* The descriptors of the root's children that this call created, in
\* document order.
CreatedInDocOrder ==
    LET kids == SelectSeq(doc[document_id].children,
                          LAMBDA id : "n" \in DOMAIN doc[id].desc)
    IN [k \in 1..Len(kids) |-> doc[kids[k]].desc.n]

\* C6: create_blocks sends the children in requests of at most 50
\* descriptors, in list order, whose concatenation is the input list; with
\* index >= 0 the k-th request (from 0) carries index + 50*k, with
\* index < 0 no request carries an index; the created blocks keep their
\* relative order in the document.
C6_ChunkedInOrder ==
    cb_pc # "idle" =>
        /\ \A k \in 1..Len(requests) : Len(requests[k].children) \in 1..chunk_size
        /\ LET sent == SentChildren
           IN /\ sent = SubSeq(cb_children, 1, Len(sent))
              /\ cb_pc = "returned" => sent = cb_children
        /\ cb_index >= 0 =>
              \A k \in 1..Len(requests) :
                  /\ "index" \in DOMAIN requests[k]
                  /\ requests[k].index = cb_index + chunk_size * (k - 1)
        /\ cb_index < 0 => \A k \in 1..Len(requests) : "index" \notin DOMAIN requests[k]
        /\ LET created == CreatedInDocOrder
           IN \A k \in 1..(Len(created) - 1) : created[k] < created[k + 1]

\* Three requests with an index, all accepted.
C6_Witness ==
    /\ cb_pc = "returned" /\ cb_index > 0 /\ Len(requests) = 3
    /\ \A k \in 1..3 : requests[k].outcome = "ok"
    /\ Len(CreatedInDocOrder) = Len(cb_children)

(***************************************************************************)
(* DocumentParser._render_table (document.py 434-489)                      *)
(***************************************************************************)
\* document.py 459-465: the span read at a position, 1 x 1 past the end of
\* merge_infos.
SpanAt(infos, flat_index) ==
    IF flat_index < Len(infos) THEN infos[flat_index + 1]
    ELSE [row_span |-> 1, col_span |-> 1]

\* A variant of MarkRegion that marks the origin alone.
MarkOrigin(grid, r, c, r_span, c_span) ==
    [rr \in DOMAIN grid |-> [cc \in DOMAIN grid[rr] |-> (rr = r /\ cc = c) \/ grid[rr][cc]]]

\* document.py 467-471: mark the spanned rectangle, clipped to the grid.
MarkRegion(grid, r, c, r_span, c_span) ==
    [rr \in DOMAIN grid |->
        [cc \in DOMAIN grid[rr] |->
            \/ (rr \in r..(r + r_span - 1) /\ cc \in c..(c + c_span - 1))
            \/ grid[rr][cc]]]

\* "<br>".join(inner_texts)
RECURSIVE JoinBr(_)
JoinBr(texts) ==
    IF texts = <<>> THEN ""
    ELSE IF Len(texts) = 1 THEN texts[1]
    ELSE texts[1] \o "<br>" \o JoinBr(Tail(texts))

\* document.py 455-456: the loops' next position.
TbAdvance ==
    IF c_idx + 1 < col_count
    THEN r_idx' = r_idx /\ c_idx' = c_idx + 1
    ELSE r_idx' = r_idx + 1 /\ c_idx' = 0

\* document.py 457-458: a position already visited is passed over.
TableScanVisited ==
    /\ tb_pc = "scan" /\ r_idx < row_count
    /\ visited[r_idx][c_idx]
    /\ TbAdvance
    /\ UNCHANGED <<tb_pc, row_count, col_count, merge_infos, all_cell_blocks,
                   visited, grid_data, global_cell_cursor, handled>>
    /\ UNCHANGED <<convVars, exVars, cbVars, rdVars, wVars, srvVars, sdkVars>>

\* document.py 460-483: a position not yet visited starts a region.
TableScanOrigin ==
    /\ tb_pc = "scan" /\ r_idx < row_count
    /\ ~visited[r_idx][c_idx]
    /\ LET m_info == SpanAt(merge_infos, r_idx * col_count + c_idx)
           r_span == m_info.row_span
           c_span == m_info.col_span
           marked == MarkRegion(visited, r_idx, c_idx, r_span, c_span)
           has_cell == global_cell_cursor < Len(all_cell_blocks)
           cell_content ==
               IF has_cell
               THEN JoinBr(all_cell_blocks[global_cell_cursor + 1].inner_texts)
               ELSE ""
       IN /\ visited' = marked
          /\ handled' =
                [rr \in DOMAIN handled |->
                    [cc \in DOMAIN handled[rr] |->
                        IF rr \in r_idx..(r_idx + r_span - 1)
                           /\ cc \in c_idx..(c_idx + c_span - 1)
                        THEN handled[rr][cc] + 1 ELSE handled[rr][cc]]]
          /\ global_cell_cursor' =
                IF has_cell THEN global_cell_cursor + 1 ELSE global_cell_cursor
          /\ grid_data' =
                [grid_data EXCEPT ![r_idx][c_idx] =
                    <<cell_content, r_span, c_span>>]
    /\ TbAdvance
    /\ UNCHANGED <<tb_pc, row_count, col_count, merge_infos, all_cell_blocks>>
    /\ UNCHANGED <<convVars, exVars, cbVars, rdVars, wVars, srvVars, sdkVars>>

\* document.py 485-489: the scan is over; the grid goes to the formatter.
TableScanDone ==
    /\ tb_pc = "scan" /\ r_idx >= row_count
    /\ tb_pc' = "done"
    /\ UNCHANGED <<row_count, col_count, merge_infos, all_cell_blocks, r_idx, c_idx,
                   visited, grid_data, global_cell_cursor, handled>>
    /\ UNCHANGED <<convVars, exVars, cbVars, rdVars, wVars, srvVars, sdkVars>>

(***************************************************************************)
(* SpecTable: one table rendered from its property and its cell blocks     *)
(***************************************************************************)
MaxRows == 2
MaxCols == 2
MaxSpan == 2
MaxMissing == 2

Spans == [row_span : 1..MaxSpan, col_span : 1..MaxSpan]

\* A merge_info array of a rows x cols table: 1 x 1 everywhere but at two
\* positions.
MergeInfo(rows, cols, p, sp, q, sq) ==
    [k \in 1..(rows * cols) |->
        IF k = p THEN sp ELSE IF k = q THEN sq
        ELSE [row_span |-> 1, col_span |-> 1]]

\* The k-th cell block of a table with what its children render to.
CellBlock(k) ==
    [block_id |-> k, block_type |-> BLOCK_TYPE_TABLE_CELL,
     inner_texts |-> [j \in 1..(k % 3) |-> "t" \o ToString(k) \o ToString(j)]]

TableInit ==
    /\ \E rows \in 1..MaxRows, cols \in 1..MaxCols :
          /\ row_count = rows /\ col_count = cols
          /\ \E p, q \in 1..(rows * cols), sp, sq \in Spans,
                len \in {0, cols, rows * cols} :
                merge_infos = SubSeq(MergeInfo(rows, cols, p, sp, q, sq), 1, len)
          /\ \E n \in 0..(rows * cols) :
                /\ n >= rows * cols - MaxMissing
                /\ all_cell_blocks = [k \in 1..n |-> CellBlock(k)]
          /\ visited = [r \in 0..(rows - 1) |-> [c \in 0..(cols - 1) |-> FALSE]]
          /\ grid_data = [r \in 0..(rows - 1) |-> [c \in 0..(cols - 1) |-> <<>>]]
          /\ handled = [r \in 0..(rows - 1) |-> [c \in 0..(cols - 1) |-> 0]]
    /\ tb_pc = "scan" /\ r_idx = 0 /\ c_idx = 0 /\ global_cell_cursor = 0
    /\ ConvIdle /\ ExIdle /\ CbIdle /\ RdIdle /\ WIdle /\ SrvIdle
    /\ SdkIdle

TableNext == TableScanVisited \/ TableScanOrigin \/ TableScanDone

SpecTable == TableInit /\ [][TableNext]_vars

\* The rectangle a region claims.
RectOf(o) ==
    {<<rr, cc>> : rr \in o.r..(o.r + o.r_span - 1), cc \in o.c..(o.c + o.c_span - 1)}

\* The regions a merge_info array describes on a rows x cols grid: in
\* row-major order, a position that no earlier region covers is the origin
\* of a region with the span given at its flat index.
RECURSIVE RegionOrigins(_, _, _, _, _)
RegionOrigins(rows, cols, infos, p, acc) ==
    IF p >= rows * cols THEN acc
    ELSE LET r == p \div cols
             c == p % cols
             span == IF p < Len(infos) THEN infos[p + 1]
                     ELSE [row_span |-> 1, col_span |-> 1]
         IN RegionOrigins(rows, cols, infos, p + 1,
                IF \E o \in acc : <<r, c>> \in RectOf(o) THEN acc
                ELSE acc \cup {[r |-> r, c |-> c, r_span |-> span.row_span,
                                c_span |-> span.col_span]})

\* The array partitions the grid into rectangles: the regions lie within
\* the grid and no two overlap (they cover the grid by construction).
ValidPartition(rows, cols, infos) ==
    LET regions == RegionOrigins(rows, cols, infos, 0, {})
    IN /\ \A o \in regions :
             RectOf(o) \subseteq (0..(rows - 1)) \X (0..(cols - 1))
       /\ \A o1, o2 \in regions : o1 # o2 => RectOf(o1) \cap RectOf(o2) = {}

\* The grid entries that hold content after the scan.
ContentCells ==
    {<<r, c>> \in (0..(row_count - 1)) \X (0..(col_count - 1)) : grid_data[r][c] # <<>>}

ExampleMergeInfo ==
    <<[row_span |-> 1, col_span |-> 2], [row_span |-> 1, col_span |-> 1],
      [row_span |-> 1, col_span |-> 1], [row_span |-> 1, col_span |-> 1]>>

\* What C3 says of the scan and of the grid entries, apart from the cell
\* blocks consumed.
C3_ScanAndEntries ==
    LET regions == RegionOrigins(row_count, col_count, merge_infos, 0, {})
    IN /\ \A r \in 0..(row_count - 1), c \in 0..(col_count - 1) : handled[r][c] = 1
       /\ ContentCells = {<<o.r, o.c>> : o \in regions}
       /\ Cardinality(ContentCells) = Cardinality(regions)
       /\ (row_count = 2 /\ col_count = 2 /\ merge_infos = ExampleMergeInfo)
             => Cardinality(ContentCells) = 3

\* C3 as stated: for a merge_info array that partitions the grid into
\* rectangles, the scan handles every position exactly once, and the number
\* of grid entries with content equals the number of region origins and
\* the number of cell blocks consumed; 3 content cells for the 2 x 2
\* example.
C3_AsStated ==
    (tb_pc = "done" /\ ValidPartition(row_count, col_count, merge_infos)) =>
        /\ C3_ScanAndEntries
        /\ global_cell_cursor = Cardinality(ContentCells)

\* C3, amended: the number of cell blocks consumed equals the number of
\* region origins when the table supplies at least one cell block per
\* origin; in general it is the smaller of the two numbers.
C3_RegionsScannedOnce ==
    (tb_pc = "done" /\ ValidPartition(row_count, col_count, merge_infos)) =>
        /\ C3_ScanAndEntries
        /\ global_cell_cursor = Min(Cardinality(ContentCells), Len(all_cell_blocks))
        /\ Len(all_cell_blocks) >= Cardinality(ContentCells)
              => global_cell_cursor = Cardinality(ContentCells)

\* The 2 x 2 example rendered from three cell blocks.
C3_Witness ==
    /\ tb_pc = "done" /\ row_count = 2 /\ col_count = 2
    /\ merge_infos = ExampleMergeInfo /\ Len(all_cell_blocks) = 3
    /\ global_cell_cursor = 3 /\ grid_data[0][1] = <<>>

(***************************************************************************)
(* DocumentParser: block content to Markdown (document.py 228-432)         *)
(***************************************************************************)
\* urllib.parse.unquote on the URLs of the documents below: each %XX escape
\* is replaced by the character it encodes.
unquote(url) ==
    CASE url = "https://a.io/x%20y" -> "https://a.io/x y"
      [] url = "https%3A%2F%2Fa.io" -> "https://a.io"
      [] OTHER -> url

\* The grave accent that wraps inline code (document.py 418); a string of
\* this language cannot hold the character itself, so its code point
\* stands for it.
Backtick == "U+0060"

\* document.py 411-412
_wrap_bold(text) == IF text # "" THEN "**" \o text \o "** " ELSE ""

\* document.py 407-422: the text of one text_run with its style applied.
_render_text_run(text_run) ==
    LET style == Get(text_run, "text_element_style", None)
        t0 == text_run.content
        t1 == IF style.bold THEN _wrap_bold(t0) ELSE t0
        t2 == IF style.italic THEN "*" \o t1 \o "*" ELSE t1
        t3 == IF style.strikethrough THEN "~~" \o t2 \o "~~" ELSE t2
        t4 == IF style.inline_code THEN Backtick \o t3 \o Backtick ELSE t3
        t5 == IF style.underline THEN "<u>" \o t4 \o "</u>" ELSE t4
        t6 == IF "link" \in DOMAIN style
              THEN "[" \o t5 \o "](" \o unquote(style.link.url) \o ")" ELSE t5
    IN IF "text_element_style" \in DOMAIN text_run THEN t6 ELSE t0

\* document.py 404-430: one element.
_render_element(el) ==
    IF "text_run" \in DOMAIN el THEN _render_text_run(el.text_run)
    ELSE IF "mention_doc" \in DOMAIN el THEN "[" \o el.mention_doc.token \o "]"
    ELSE IF "equation" \in DOMAIN el THEN "$" \o el.equation.content \o "$"
    ELSE IF "link_preview" \in DOMAIN el THEN "[" \o el.link_preview.url \o "]"
    ELSE ""

RECURSIVE JoinAll(_)
JoinAll(texts) == IF texts = <<>> THEN "" ELSE Head(texts) \o JoinAll(Tail(texts))

\* document.py 397-432; a payload that is None is a record without elements.
_render_text_payload(payload) ==
    IF "elements" \notin DOMAIN payload THEN ""
    ELSE JoinAll([i \in 1..Len(payload.elements) |-> _render_element(payload.elements[i])])

RECURSIVE Repeat(_, _)
Repeat(str, n) == IF n <= 0 THEN "" ELSE str \o Repeat(str, n - 1)

\* int(seq) for a decimal string
int(str) == CHOOSE n \in 0..99 : ToString(n) = str

\* document.py 246-254: the number an ordered item shows and the counter
\* after it.
_ordered_seq(block, counter) ==
    LET style == Get(Get(block, "ordered", <<>>), "style", <<>>)
        sequence == Get(style, "sequence", "")
        seq == IF sequence = "" THEN "1" ELSE sequence
    IN IF style = <<>> THEN [seq |-> "1", last_order_seq |-> counter]
       ELSE IF seq = "auto"
            THEN [seq |-> ToString(counter + 1), last_order_seq |-> counter + 1]
       ELSE [seq |-> seq, last_order_seq |-> int(seq)]

\* The vendor's codes of the board and the file block (BlockType.BOARD,
\* BlockType.FILE); only their being distinct from the others is used.
BLOCK_TYPE_BOARD == 43
BLOCK_TYPE_FILE == 23

\* sdk.py 718-746, 748-771: get_image / get_whiteboard save the download
\* under the token's name; a response that is not a success gives None.
\* answer is the vendor's answer to the request for this token.
get_image(file_token, answer) ==
    IF answer = "ok" THEN "tmp/" \o file_token \o ".png" ELSE None

get_whiteboard(whiteboard_id, answer) ==
    IF answer = "ok" THEN "tmp/" \o whiteboard_id \o ".png" ELSE None

\* sdk.py 773-807: the temporary URL of the file; None when the response
\* is not a success or does not name the token.
get_file_download_url(file_token, answer) ==
    IF answer = "ok" THEN "https://dl/" \o file_token ELSE None

\* document.py 277-288, without an assets_dir.  "download failed" stands
\* for the alt text of the source's broken-image marker.
_render_image(block) ==
    LET image == Get(block, "image", <<>>)
    IN IF Get(image, "token", "") = "" THEN ""
       ELSE LET file_path == get_image(image.token, block.answer)
            IN IF file_path # None THEN "![image](" \o file_path \o ")"
               ELSE "![download failed](" \o image.token \o ")"

\* document.py 298-305: with export_board_metadata on, a board with a
\* token is exported through self.sdk.get_whiteboard_with_metadata, which
\* FeishuSDK (sdk.py 56-1186) does not define: the attribute lookup raises.
_render_raises(block) ==
    /\ block.block_type = BLOCK_TYPE_BOARD
    /\ Get(Get(block, "board", <<>>), "token", "") # ""
    /\ export_board_metadata

\* document.py 291-338, with export_board_metadata off and without an
\* assets_dir.
_render_board(block) ==
    LET board == Get(block, "board", <<>>)
    IN IF Get(board, "token", "") = "" THEN ""
       ELSE LET file_path == get_whiteboard(board.token, block.answer)
            IN IF file_path # None THEN "![whiteboard](" \o file_path \o ")" ELSE ""

\* document.py 383-393.  "(file)" stands for the paperclip sign, "unnamed"
\* for the source's default name.
_render_file(block) ==
    IF "file" \notin DOMAIN block THEN ""
    ELSE LET file_name == IF Get(block.file, "name", "") = "" THEN "unnamed"
                          ELSE block.file.name
             file_token == block.file.token
             download_url == get_file_download_url(file_token, block.answer)
         IN IF download_url # None
            THEN "(file) [" \o file_name \o "](" \o download_url \o ")"
            ELSE "(file) " \o file_name \o " (token: " \o Backtick \o file_token
                 \o Backtick \o ")"

\* schema/code_style.py: the vendor's language codes with their names, the
\* other direction of LANGUAGE_MAP; code 1 is the vendor's plain text.
CODE_STYLE_MAP == [c \in {1, 49, 13, 23} |->
                     CASE c = 49 -> "python" [] c = 13 -> "go" [] c = 23 -> "json"
                       [] OTHER -> "plaintext"]

Fence == Backtick \o Backtick \o Backtick

\* document.py 262-266
_render_code(block) ==
    LET code == Get(block, "code", <<>>)
        language == Get(Get(code, "style", <<>>), "language", 0)
        lang == IF language # 0 THEN Get(CODE_STYLE_MAP, language, "text") ELSE "text"
    IN Fence \o lang \o "\n" \o _render_text_payload(code) \o "\n" \o Fence

\* document.py 228-395: the block's own content and the counter after it.
_render_block_content(block, counter) ==
    LET bt == block.block_type
    IN IF bt = BLOCK_TYPE_TEXT
       THEN [text |-> _render_text_payload(Get(block, "text", <<>>)),
             last_order_seq |-> counter]
       ELSE IF bt >= BLOCK_TYPE_HEADING1 /\ bt <= BLOCK_TYPE_HEADING9
       THEN [text |-> Repeat("#", bt - 2) \o " "
                      \o _render_text_payload(
                            Get(block, "heading" \o ToString(bt - 2), <<>>)),
             last_order_seq |-> counter]
       ELSE IF bt = BLOCK_TYPE_BULLET
       THEN [text |-> "- " \o _render_text_payload(Get(block, "bullet", <<>>)),
             last_order_seq |-> counter]
       ELSE IF bt = BLOCK_TYPE_ORDERED
       THEN LET o == _ordered_seq(block, counter)
            IN [text |-> o.seq \o ". "
                         \o _render_text_payload(Get(block, "ordered", <<>>)),
                last_order_seq |-> o.last_order_seq]
       ELSE IF bt = BLOCK_TYPE_TODO
       THEN [text |-> "- " \o (IF Get(Get(Get(block, "todo", <<>>), "style", <<>>),
                                       "done", FALSE)
                               THEN "[x]" ELSE "[ ]")
                      \o " " \o _render_text_payload(Get(block, "todo", <<>>)),
             last_order_seq |-> counter]
       ELSE IF bt = BLOCK_TYPE_CODE
       THEN [text |-> _render_code(block), last_order_seq |-> counter]
       ELSE IF bt = BLOCK_TYPE_QUOTE
       THEN [text |-> "> " \o _render_text_payload(Get(block, "quote", <<>>)),
             last_order_seq |-> counter]
       ELSE IF bt = BLOCK_TYPE_DIVIDER
       THEN [text |-> "---", last_order_seq |-> counter]
       ELSE IF bt = BLOCK_TYPE_IMAGE
       THEN [text |-> _render_image(block), last_order_seq |-> counter]
       ELSE IF bt = BLOCK_TYPE_BOARD
       THEN [text |-> _render_board(block), last_order_seq |-> counter]
       ELSE IF bt = BLOCK_TYPE_FILE
       THEN [text |-> _render_file(block), last_order_seq |-> counter]
       ELSE [text |-> "", last_order_seq |-> counter]

\* _recursive_render renders a block's own content before its children's
\* (document.py 167-181): rd_blocks is the tree in pre-order, and one step
\* renders the next block's own content.
RenderBlockSelf ==
    /\ rd_pc = "render" /\ Len(rendered) < Len(rd_blocks)
    /\ ~_render_raises(rd_blocks[Len(rendered) + 1])
    /\ LET block == rd_blocks[Len(rendered) + 1]
           out == _render_block_content(block, last_order_seq)
       IN /\ rendered' = Append(rendered, out.text)
          /\ last_order_seq' = out.last_order_seq
          /\ rd_seen' = Append(rd_seen, last_order_seq)
    /\ UNCHANGED <<rd_pc, rd_blocks, export_board_metadata, parse_returns>>
    /\ UNCHANGED <<convVars, exVars, cbVars, tbVars, wVars, srvVars, sdkVars>>

\* document.py 298-305 raises AttributeError; nothing between it and the
\* caller of parse catches (document.py 135-226), so the render ends there.
RenderBlockRaised ==
    /\ rd_pc = "render" /\ Len(rendered) < Len(rd_blocks)
    /\ _render_raises(rd_blocks[Len(rendered) + 1])
    /\ rd_pc' = "raised"
    /\ UNCHANGED <<rd_blocks, last_order_seq, rendered, rd_seen, export_board_metadata, parse_returns>>
    /\ UNCHANGED <<convVars, exVars, cbVars, tbVars, wVars, srvVars, sdkVars>>

\* Every block has been rendered: parse returns (document.py 152-158).
RenderDone ==
    /\ rd_pc = "render" /\ Len(rendered) = Len(rd_blocks)
    /\ rd_pc' = "done"
    /\ parse_returns' = Append(parse_returns, rendered)
    /\ UNCHANGED <<rd_blocks, last_order_seq, rendered, rd_seen, export_board_metadata>>
    /\ UNCHANGED <<convVars, exVars, cbVars, tbVars, wVars, srvVars, sdkVars>>

RenderNext == RenderBlockSelf \/ RenderDone

(***************************************************************************)
(* SpecRender: ordered-list numbering over a document in pre-order         *)
(***************************************************************************)
MaxRenderBlocks == 3

PlainRun(content) == [text_run |-> [content |-> content]]

\* An ordered item as the vendor returns it, with its style's sequence.
OrderedItem(sequence) ==
    [block_type |-> BLOCK_TYPE_ORDERED,
     ordered |-> [elements |-> <<PlainRun("a")>>, style |-> [sequence |-> sequence]]]

\* An ordered item whose payload carries no style (style is None).
OrderedNoStyle ==
    [block_type |-> BLOCK_TYPE_ORDERED, ordered |-> [elements |-> <<PlainRun("a")>>]]

ListBlocks ==
    {OrderedItem("1"), OrderedItem("3"), OrderedItem("auto"), OrderedItem(""),
     OrderedNoStyle,
     [block_type |-> BLOCK_TYPE_TEXT, text |-> [elements |-> <<PlainRun("p")>>]],
     [block_type |-> BLOCK_TYPE_BULLET, bullet |-> [elements |-> <<PlainRun("b")>>]],
     [block_type |-> BLOCK_TYPE_HEADING1 + 1, heading2 |-> [elements |-> <<PlainRun("h")>>]]}

RenderInit ==
    /\ \E n \in 0..MaxRenderBlocks : rd_blocks \in [1..n -> ListBlocks]
    /\ rd_pc = "render" /\ last_order_seq = 1 /\ rendered = <<>> /\ rd_seen = <<>>
    /\ export_board_metadata = FALSE /\ parse_returns = <<>>
    /\ ConvIdle /\ ExIdle /\ CbIdle /\ TbIdle /\ WIdle /\ SrvIdle
    /\ SdkIdle

SpecRender == RenderInit /\ [][RenderNext]_vars

(***************************************************************************)
(* SpecInline: one text block whose runs carry every style combination     *)
(***************************************************************************)
MaxRuns == 1

Urls == {"https://a.io", "https://a.io/x%20y"}

Flags == [bold : BOOLEAN, italic : BOOLEAN, strikethrough : BOOLEAN,
          inline_code : BOOLEAN, underline : BOOLEAN]

Styles == Flags \cup {f @@ [link |-> [url |-> u]] : f \in Flags, u \in Urls}

Elements ==
    {[text_run |-> [content |-> c, text_element_style |-> st]] :
        c \in {"X", ""}, st \in Styles}
    \cup {PlainRun("X"), [mention_doc |-> [token |-> "tok"]],
          [equation |-> [content |-> "x^2"]],
          [link_preview |-> [url |-> "https://a.io"]]}

InlineInit ==
    /\ \E n \in 0..MaxRuns :
          \E els \in [1..n -> Elements] :
              rd_blocks = <<[block_type |-> BLOCK_TYPE_TEXT, text |-> [elements |-> els]]>>
    /\ rd_pc = "render" /\ last_order_seq = 1 /\ rendered = <<>> /\ rd_seen = <<>>
    /\ export_board_metadata = FALSE /\ parse_returns = <<>>
    /\ ConvIdle /\ ExIdle /\ CbIdle /\ TbIdle /\ WIdle /\ SrvIdle
    /\ SdkIdle

SpecInline == InlineInit /\ [][RenderNext]_vars

(***************************************************************************)
(* Claims about the renderer                                               *)
(***************************************************************************)
\* The ordered items rendered so far, as positions of rd_blocks.
OrderedRendered == {i \in 1..Len(rendered) : rd_blocks[i].block_type = BLOCK_TYPE_ORDERED}

\* The sequence an ordered item carries: None when it has no style.
SequenceOf(block) ==
    IF "style" \in DOMAIN block.ordered THEN block.ordered.style.sequence ELSE None

\* The number an ordered item rendered as, read off its Markdown.
RenderedNumber(i) ==
    CHOOSE n \in 0..99 :
        rendered[i] = ToString(n) \o ". " \o _render_text_payload(rd_blocks[i].ordered)

\* The running counter after the i-th block was rendered.
CounterAfter(i) == IF i < Len(rd_seen) THEN rd_seen[i + 1] ELSE last_order_seq

\* C8: an ordered item whose sequence is the number n renders as n and
\* sets the running counter to n; an item whose sequence is "auto" renders
\* as one more than the number rendered for the most recently rendered
\* ordered item; sequences 1, auto, auto render as 1, 2, 3.
C8_AutoFollowsLastRendered ==
    \A i \in OrderedRendered :
        LET sequence == SequenceOf(rd_blocks[i])
            earlier == {j \in OrderedRendered : j < i}
        IN /\ sequence \notin {None, "", "auto"} =>
                /\ RenderedNumber(i) = int(sequence)
                /\ CounterAfter(i) = int(sequence)
           /\ (sequence = "auto" /\ earlier # {}) =>
                RenderedNumber(i) = RenderedNumber(CHOOSE j \in earlier : \A k \in earlier : k <= j) + 1

\* C8, what the code does: an "auto" item renders as one more than the
\* running counter, which an item without a style leaves as it was.
C8_AutoFollowsCounter ==
    \A i \in OrderedRendered :
        /\ SequenceOf(rd_blocks[i]) = "auto" =>
              /\ RenderedNumber(i) = rd_seen[i] + 1
              /\ CounterAfter(i) = rd_seen[i] + 1
        /\ SequenceOf(rd_blocks[i]) = None =>
              /\ RenderedNumber(i) = 1
              /\ CounterAfter(i) = rd_seen[i]
        /\ (Len(rendered) = 3 /\ OrderedRendered = {1, 2, 3}
            /\ SequenceOf(rd_blocks[1]) = "1" /\ SequenceOf(rd_blocks[2]) = "auto"
            /\ SequenceOf(rd_blocks[3]) = "auto")
              => rendered = <<"1. a", "2. a", "3. a">>

\* Items 3, (no style), auto have been rendered.
C8_StylelessWitness ==
    /\ rd_pc = "done" /\ Len(rd_blocks) = 3
    /\ rd_blocks[1] = OrderedItem("3") /\ rd_blocks[2] = OrderedNoStyle
    /\ rd_blocks[3] = OrderedItem("auto")
    /\ rendered = <<"3. a", "1. a", "4. a">>

\* The wrappers of C9 around a run's content, each around the previous
\* result.
NestedWrappers(text_run) ==
    LET style == text_run.text_element_style
        t1 == IF style.bold THEN "**" \o text_run.content \o "**" ELSE text_run.content
        t2 == IF style.italic THEN "*" \o t1 \o "*" ELSE t1
        t3 == IF style.strikethrough THEN "~~" \o t2 \o "~~" ELSE t2
        t4 == IF style.inline_code THEN Backtick \o t3 \o Backtick ELSE t3
        t5 == IF style.underline THEN "<u>" \o t4 \o "</u>" ELSE t4
    IN IF "link" \in DOMAIN style
       THEN "[" \o t5 \o "](" \o unquote(style.link.url) \o ")" ELSE t5

\* The styled runs with content of the block being rendered.
StyledRuns ==
    {i \in 1..Len(rd_blocks[1].text.elements) :
        /\ "text_run" \in DOMAIN rd_blocks[1].text.elements[i]
        /\ "text_element_style" \in DOMAIN rd_blocks[1].text.elements[i].text_run
        /\ rd_blocks[1].text.elements[i].text_run.content # ""}

\* C9: for every combination of the style flags, _render_text_payload
\* nests the wrappers in the order bold, italic, strikethrough,
\* inline-code, underline, link, each wrapping the previous result; a
\* bold+link run with content "X" renders as [**X**](url).
C9_WrappersNestInOrder ==
    (Len(rendered) = 1 /\ Len(rd_blocks[1].text.elements) = 1 /\ StyledRuns = {1}) =>
        rendered[1] = NestedWrappers(rd_blocks[1].text.elements[1].text_run)

\* C9, what the code does: the same nesting when the run is not bold; a
\* bold run gets a space after its closing asterisks, inside the later
\* wrappers.
C9_BoldTrailingSpace ==
    (Len(rendered) = 1 /\ Len(rd_blocks[1].text.elements) = 1 /\ StyledRuns = {1}) =>
        LET run == rd_blocks[1].text.elements[1].text_run
            style == run.text_element_style
            plain == [run EXCEPT !.text_element_style.bold = FALSE,
                                 !.content = "**" \o run.content \o "** "]
        IN /\ ~style.bold => rendered[1] = NestedWrappers(run)
           /\ style.bold => rendered[1] = NestedWrappers(plain)

\* A bold+link run "X" has been rendered.
C9_BoldLinkWitness ==
    /\ rd_pc = "done" /\ Len(rd_blocks[1].text.elements) = 1
    /\ rd_blocks[1].text.elements[1] =
          [text_run |-> [content |-> "X",
                         text_element_style |->
                             [bold |-> TRUE, italic |-> FALSE, strikethrough |-> FALSE,
                              inline_code |-> FALSE, underline |-> FALSE,
                              link |-> [url |-> "https://a.io"]]]]
    /\ rendered = <<"[**X** ](https://a.io)">>

(***************************************************************************)
(* The vendor's store: listing and deleting                                *)
(***************************************************************************)
\* A block as the SDK's typed responses hold it (a lark Block object).
ObjectBlock(b) ==
    [kind |-> "object", block_id |-> b.block_id, block_type |-> b.block_type,
     parent_id |-> b.parent_id, children |-> b.children]

\* The flat list of all blocks of the document, as the list endpoint
\* returns it over its pages.
DocList(d) ==
    LET ids == SelectSeq([i \in 1..(MaxOf(DOMAIN d) + 1) |-> i - 1],
                         LAMBDA x : x \in DOMAIN d)
    IN [k \in 1..Len(ids) |-> ObjectBlock(d[ids[k]])]

RECURSIVE Descendants(_, _)
Descendants(d, ids) ==
    LET kids == UNION {{d[i].children[k] : k \in 1..Len(d[i].children)} : i \in ids}
    IN IF kids = {} THEN ids ELSE ids \cup Descendants(d, kids)

\* The store without the given blocks and what hangs below them.
ServerDelete(d, ids) ==
    LET gone == Descendants(d, ids \cap DOMAIN d)
    IN [i \in DOMAIN d \ gone |->
           [d[i] EXCEPT !.children = SelectSeq(@, LAMBDA c : c \notin gone)]]

\* The store after replace_image on an image block.
ServerReplaceImage(d, id, file_token) ==
    [d EXCEPT ![id].desc = [k \in DOMAIN @ \cup {"image"} |->
                               IF k = "image" THEN [token |-> file_token] ELSE @[k]]]

(***************************************************************************)
(* FeishuWriter: the pure parts (writer.py 54-159)                         *)
(***************************************************************************)
\* writer.py 153-159
_table_cell_ids(table_block) ==
    IF table_block.kind = "dict"
    THEN IF table_block.children # <<>> THEN table_block.children
         ELSE table_block.table.cells
    ELSE <<>>

IsTable(block) == block.block_type = BLOCK_TYPE_TABLE

_table_plan_unsized(block) ==
    LET cell_blocks == Get(block, "children", <<>>)
    IN [cell_contents |->
           [i \in 1..Len(cell_blocks) |-> Get(cell_blocks[i], "children", <<>>)]]

\* writer.py 114-146: the fill plan of one table descriptor.
_table_plan(block) ==
    LET cell_blocks == Get(block, "children", <<>>)
        cell_contents == [i \in 1..Len(cell_blocks) |-> Get(cell_blocks[i], "children", <<>>)]
        table_prop == Get(Get(block, "table", <<>>), "property", <<>>)
        sized == "row_size" \in DOMAIN table_prop /\ "column_size" \in DOMAIN table_prop
        expected_cells == table_prop.row_size * table_prop.column_size
    IN [cell_contents |->
           IF ~sized THEN cell_contents
           ELSE IF expected_cells > Len(cell_blocks)
           THEN cell_contents \o [k \in 1..(expected_cells - Len(cell_blocks)) |-> <<>>]
           ELSE SubSeq(cell_contents, 1, expected_cells)]

\* block.pop("children", None)
WithoutChildren(block) == [k \in DOMAIN block \ {"children"} |-> block[k]]

\* writer.py 105-151
_prepare_table_blocks(blocks) ==
    LET tables == SelectSeq(blocks, IsTable)
    IN [blocks |-> [i \in 1..Len(blocks) |->
                       IF IsTable(blocks[i]) THEN WithoutChildren(blocks[i]) ELSE blocks[i]],
        table_plans |-> [k \in 1..Len(tables) |-> _table_plan(tables[k])]]

\* A variant of dfs that visits the children of a block after what
\* followed the block.
RECURSIVE dfs_breadth_first(_, _, _)
dfs_breadth_first(block_map, stack, acc) ==
    IF stack = <<>> THEN acc
    ELSE IF Head(stack) \notin DOMAIN block_map
    THEN dfs_breadth_first(block_map, Tail(stack), acc)
    ELSE IF \E k \in 1..Len(acc) : acc[k].block_id = Head(stack)
    THEN dfs_breadth_first(block_map, Tail(stack), acc)
    ELSE dfs_breadth_first(block_map, Tail(stack) \o block_map[Head(stack)].children,
                           Append(acc, block_map[Head(stack)]))

\* writer.py 89-102: the depth-first walk.  stack holds the ids still to
\* be visited, the children of a block before what followed the block;
\* acc is the list "ordered", whose ids are the set "visited" restricted
\* to the blocks of block_map.
RECURSIVE dfs(_, _, _)
dfs(block_map, stack, acc) ==
    IF stack = <<>> THEN acc
    ELSE IF Head(stack) \notin DOMAIN block_map THEN dfs(block_map, Tail(stack), acc)
    ELSE IF \E k \in 1..Len(acc) : acc[k].block_id = Head(stack)
    THEN dfs(block_map, Tail(stack), acc)
    ELSE dfs(block_map, block_map[Head(stack)].children \o Tail(stack),
             Append(acc, block_map[Head(stack)]))

\* writer.py 73-103
_ordered_blocks(blocks) ==
    IF blocks = <<>> THEN <<>>
    ELSE LET ids == {blocks[k].block_id : k \in 1..Len(blocks)}
             block_map == [id \in ids |->
                              blocks[CHOOSE k \in 1..Len(blocks) :
                                         /\ blocks[k].block_id = id
                                         /\ \A j \in (k + 1)..Len(blocks) :
                                                blocks[j].block_id # id]]
             pages == {k \in 1..Len(blocks) : blocks[k].block_type = BLOCK_TYPE_PAGE}
             root_id == IF document_id \in ids THEN document_id
                        ELSE IF pages # {}
                        THEN blocks[CHOOSE k \in pages : \A j \in pages : k <= j].block_id
                        ELSE document_id
         IN dfs(block_map, <<root_id>>, <<>>)

\* writer.py 356-360
_image_blocks(ordered) ==
    SelectSeq(ordered,
              LAMBDA b : b.block_type = BLOCK_TYPE_IMAGE /\ b.block_id # document_id)

\* writer.py 316-319
_created_table_blocks(created) ==
    SelectSeq(created, LAMBDA b : b.kind = "dict" /\ b.block_type = BLOCK_TYPE_TABLE)

\* A call of the SDK in the history, stamped with the number of creation
\* requests sent before it.
Call(op, outcome, more) == [op |-> op, outcome |-> outcome, at |-> Len(requests)] @@ more

\* sdk.py 652-716: how an upload_image call can come out.  The file goes
\* up as "docx_image" under parent_node; when the vendor refuses, as
\* "doc_image" under the document; when it refuses again, the call raises.
UploadOutcomes == {"docx_image", "doc_image", "failed"}

\* sdk.py 708-716: the file_token upload_image returns.
upload_image(file_path, parent_node, uploaded) ==
    [path |-> file_path,
     node |-> IF uploaded = "docx_image" THEN parent_node ELSE document_id]

\* A variant of _image_calls that leaves the placeholder alone when the
\* upload or the replace fails.
_image_calls_no_cleanup(i, block_id, img_url, exists, uploaded, replaced, deleted) ==
    LET file_token == upload_image(img_url, block_id, uploaded)
        it == [i |-> i, block_id |-> block_id]
    IN IF exists
       THEN IF uploaded = "failed"
            THEN <<Call("upload_image", "failed",
                        it @@ [path |-> img_url, parent_node |-> block_id])>>
            ELSE <<Call("upload_image", "ok",
                        it @@ [path |-> img_url, parent_node |-> block_id,
                               returned |-> file_token]),
                   Call("replace_image", replaced, it @@ [file_token |-> file_token])>>
       ELSE <<Call("delete_block", deleted, it)>>

\* writer.py 370-405: the SDK calls made for the i-th (image path,
\* placeholder) pair, given how each call comes out.
_image_calls(i, block_id, img_url, exists, uploaded, replaced, deleted) ==
    LET file_token == upload_image(img_url, block_id, uploaded)
        it == [i |-> i, block_id |-> block_id]
    IN IF exists
       THEN (IF uploaded = "failed"
             THEN <<Call("upload_image", "failed",
                         it @@ [path |-> img_url, parent_node |-> block_id])>>
             ELSE <<Call("upload_image", "ok",
                         it @@ [path |-> img_url, parent_node |-> block_id,
                                returned |-> file_token]),
                    Call("replace_image", replaced, it @@ [file_token |-> file_token])>>)
            \o (IF uploaded # "failed" /\ replaced = "ok" THEN <<>>
                ELSE <<Call("delete_block", deleted, it)>>)
       ELSE <<Call("delete_block", deleted, it)>>

\* The store after the calls of one pair.
RECURSIVE ServerApply(_, _)
ServerApply(d, cs) ==
    IF cs = <<>> THEN d
    ELSE LET c == Head(cs)
             d1 == IF c.outcome # "ok" THEN d
                   ELSE IF c.op = "replace_image"
                   THEN ServerReplaceImage(d, c.block_id, c.file_token)
                   ELSE IF c.op = "delete_block" THEN ServerDelete(d, {c.block_id})
                   ELSE d
         IN ServerApply(d1, Tail(cs))

(***************************************************************************)
(* FeishuSDK.get_document_block_list (sdk.py 175-212)                      *)
(***************************************************************************)
page_size == 500
FirstPageCap == 1

\* The lengths the next page may have: up to page_size items; the vendor
\* may cut the first page short.
PageLens(n) ==
    {Min(n, page_size)}
        \cup (IF bl_items = <<>> /\ n > FirstPageCap THEN {FirstPageCap} ELSE {})

\* The call: sdk.py 186-188.
FetchCall == bl_pc' = "fetch" /\ bl_items' = <<>>

\* One page arrives (sdk.py 190-210).
FetchPageOk ==
    /\ bl_pc = "fetch"
    /\ LET all == DocList(doc)
       IN \E k \in PageLens(Len(all) - Len(bl_items)) :
             /\ bl_items' = bl_items \o SubSeq(all, Len(bl_items) + 1, Len(bl_items) + k)
             /\ bl_pc' = IF Len(bl_items) + k < Len(all) THEN "fetch" ELSE "returned"
    /\ UNCHANGED <<w_pc, w_append, w_blocks, w_image_paths, table_plans,
                   created_blocks, resolved_table_blocks, w_table, w_cell_ids, w_idx,
                   w_ordered_blocks, w_image_blocks, w_i, w_result, file_exists, calls, use_native_api>>
    /\ UNCHANGED <<convVars, exVars, cbVars, tbVars, rdVars, srvVars, sdkVars>>

\* A page request fails (sdk.py 204-206): raise.
FetchPageFailed ==
    /\ bl_pc = "fetch"
    /\ bl_pc' = "raised"
    /\ calls' = Append(calls, Call("get_document_block_list", "raised", [for |-> w_pc]))
    /\ UNCHANGED <<w_pc, w_append, w_blocks, w_image_paths, table_plans,
                   created_blocks, resolved_table_blocks, w_table, w_cell_ids, w_idx,
                   w_ordered_blocks, w_image_blocks, w_i, w_result, file_exists, use_native_api,
                   bl_items>>
    /\ UNCHANGED <<convVars, exVars, cbVars, tbVars, rdVars, srvVars, sdkVars>>

(***************************************************************************)
(* FeishuWriter.write_content (writer.py 244-408)                          *)
(***************************************************************************)
batch_size == 200

\* A variant of _after_prepare that never clears.
_after_prepare_no_clear(append) == "create"

_after_prepare_always_clear(append) == "clear"

\* writer.py 302: the clear comes first unless appending.
_after_prepare(append) == IF append THEN "create" ELSE "clear"

\* writer.py 295-300: after the conversion.  No blocks: return [].
\* Otherwise the tables are prepared and the write goes on, with the clear
\* first unless appending.
AfterConvert(blocks, image_paths) ==
    LET prepared == _prepare_table_blocks(blocks)
    IN IF blocks = <<>>
       THEN /\ w_result' = "returned" /\ w_pc' = "done"
            /\ UNCHANGED <<w_blocks, w_image_paths, table_plans>>
       ELSE /\ w_blocks' = prepared.blocks
            /\ table_plans' = prepared.table_plans
            /\ w_image_paths' = image_paths
            /\ w_pc' = _after_prepare(w_append)
            /\ UNCHANGED w_result

\* writer.py 284-286
has_tables(local_blocks) == \E i \in 1..Len(local_blocks) : IsTable(local_blocks[i])

_native_despite_tables(native_api, local_images, local_blocks) ==
    native_api /\ local_images = <<>>

\* writer.py 282-293: the vendor converts the Markdown only when the native
\* API is asked for and the local conversion found no image path and no
\* table.
_native(native_api, local_images, local_blocks) ==
    native_api /\ ~(local_images # <<>> \/ has_tables(local_blocks))

\* writer.py 282-300 for the local converter's result r: without a local
\* image and without a table the vendor converts (its blocks are taken to
\* be those the local converter builds), and when that call fails
\* write_content raises (sdk.py 541-543).
Converted(r, outcome) ==
    LET native == _native(use_native_api, r.image_paths, r.blocks)
    IN /\ outcome = "failed" => native
       /\ converter_image_paths' = r.image_paths
       /\ calls' = IF native THEN Append(calls, Call("convert_markdown", outcome, <<>>))
                   ELSE calls
       /\ IF outcome = "failed"
          THEN /\ w_result' = "raised" /\ w_pc' = "done"
               /\ UNCHANGED <<w_blocks, w_image_paths, table_plans>>
          ELSE AfterConvert(r.blocks, r.image_paths)

WriteConvert ==
    /\ w_pc = "start"
    /\ \E outcome \in {"ok", "failed"} : Converted(convert(markdown_tokens), outcome)
    /\ UNCHANGED <<markdown_tokens, convert_blocks, convert_images, conv_pc, heapVars>>
    /\ UNCHANGED <<w_append, created_blocks, resolved_table_blocks, w_table,
                   w_cell_ids, w_idx, w_ordered_blocks, w_image_blocks, w_i, file_exists, use_native_api,
                   bl_pc, bl_items>>
    /\ UNCHANGED <<exVars, cbVars, tbVars, rdVars, srvVars, sdkVars>>

\* How a clear_document call can come out for a root with n children
\* (sdk.py 594-647): the first listing fails; nothing to delete; the
\* deletion fails; the children are deleted and the next round's listing
\* finds none, or fails.
ClearOutcomes(n) ==
    IF n = 0 THEN {"list_failed", "nothing"}
    ELSE {"list_failed", "delete_failed", "cleared", "cleared_list_failed"}

\* writer.py 302-307 with sdk.py 594-647: the clear, whose exception is
\* swallowed.
ClearDocument ==
    /\ w_pc = "clear"
    /\ LET children == doc[document_id].children
           delete_count == Min(Len(children), batch_size)
       IN \E outcome \in ClearOutcomes(Len(children)) :
             /\ doc' = IF outcome \in {"cleared", "cleared_list_failed"}
                       THEN ServerDelete(doc, {children[k] : k \in 1..delete_count})
                       ELSE doc
             /\ calls' = Append(calls,
                    Call("clear_document",
                         IF outcome \in {"list_failed", "cleared_list_failed"}
                         THEN "raised" ELSE "returned",
                         [detail |-> outcome]))
    /\ w_pc' = "create"
    /\ UNCHANGED <<w_append, w_blocks, w_image_paths, table_plans, created_blocks,
                   resolved_table_blocks, w_table, w_cell_ids, w_idx, w_ordered_blocks, w_image_blocks,
                   w_i, w_result, file_exists, use_native_api, bl_pc, bl_items>>
    /\ UNCHANGED <<next_id>>
    /\ UNCHANGED <<convVars, exVars, cbVars, tbVars, rdVars, sdkVars>>

\* writer.py 309-314
WriteCreate ==
    /\ w_pc = "create"
    /\ CbCall(document_id, w_blocks, -1)
    /\ w_pc' = "creating"
    /\ UNCHANGED <<requests>>
    /\ UNCHANGED <<w_append, w_blocks, w_image_paths, table_plans, created_blocks,
                   resolved_table_blocks, w_table, w_cell_ids, w_idx, w_ordered_blocks, w_image_blocks,
                   w_i, w_result, file_exists, calls, use_native_api, bl_pc, bl_items>>
    /\ UNCHANGED <<convVars, exVars, tbVars, rdVars, srvVars, sdkVars>>

\* writer.py 309-323: create_blocks has returned.  With created tables the
\* block list is fetched next.
WriteCreated ==
    /\ w_pc = "creating" /\ cb_pc = "returned"
    /\ created_blocks' = all_created_children
    /\ cb_pc' = "idle"
    /\ w_table' = 1
    /\ IF _created_table_blocks(all_created_children) # <<>>
       THEN w_pc' = "resolve" /\ FetchCall
       ELSE w_pc' = "tables" /\ UNCHANGED <<bl_pc, bl_items>>
    /\ UNCHANGED <<cb_block_id, cb_children, cb_index, cb_i, current_index,
                   all_created_children, requests>>
    /\ UNCHANGED <<w_append, w_blocks, w_image_paths, table_plans,
                   resolved_table_blocks, w_cell_ids, w_idx, w_ordered_blocks, w_image_blocks, w_i,
                   w_result, file_exists, calls, use_native_api>>
    /\ UNCHANGED <<convVars, exVars, tbVars, rdVars, srvVars, sdkVars>>

\* A create_blocks call has raised; nothing in write_content or
\* _fill_table_cells catches it (writer.py 196-201, 309-314).
WritePropagate ==
    /\ w_pc \in {"creating", "filling"} /\ cb_pc = "raised"
    /\ w_result' = "raised" /\ w_pc' = "done"
    /\ UNCHANGED <<w_append, w_blocks, w_image_paths, table_plans, created_blocks,
                   resolved_table_blocks, w_table, w_cell_ids, w_idx, w_ordered_blocks, w_image_blocks,
                   w_i, file_exists, calls, use_native_api, bl_pc, bl_items>>
    /\ UNCHANGED <<convVars, exVars, cbVars, tbVars, rdVars, srvVars, sdkVars>>

\* writer.py 324-335: the listing has returned or raised; on a raise the
\* dict stays empty.
WriteResolved ==
    /\ w_pc = "resolve" /\ bl_pc \in {"returned", "raised"}
    /\ resolved_table_blocks' =
          IF bl_pc = "returned" THEN SelectSeq(bl_items, IsTable) ELSE <<>>
    /\ bl_pc' = "idle"
    /\ w_pc' = "tables"
    /\ UNCHANGED <<w_append, w_blocks, w_image_paths, table_plans, created_blocks,
                   w_table, w_cell_ids, w_idx, w_ordered_blocks, w_image_blocks, w_i, w_result,
                   file_exists, calls, use_native_api, bl_items>>
    /\ UNCHANGED <<convVars, exVars, cbVars, tbVars, rdVars, srvVars, sdkVars>>

\* resolved_table_blocks.get(table_block_id)
Resolved(table_block_id) ==
    SelectSeq(resolved_table_blocks, LAMBDA b : b.block_id = table_block_id)

\* The pairs of zip(created_table_blocks, table_plans): writer.py 337.
ZipLen == Min(Len(_created_table_blocks(created_blocks)), Len(table_plans))

\* writer.py 337-348 and 168-188: the next table.  Its cell ids come from
\* the block at hand or, failing that, from get_block_children, whose
\* exception is swallowed; without cell ids the table is passed over.
WriteTable ==
    /\ w_pc = "tables" /\ w_table <= ZipLen
    /\ LET table_block == _created_table_blocks(created_blocks)[w_table]
           cell_contents == table_plans[w_table].cell_contents
           found == Resolved(table_block.block_id)
           block == IF found # <<>> THEN found[1] ELSE table_block
           embedded == _table_cell_ids(block)
           fetch == cell_contents # <<>> /\ embedded = <<>>
       IN \E outcome \in (IF fetch THEN {"ok", "failed"} ELSE {"none"}) :
             LET cell_ids ==
                     IF ~fetch THEN embedded
                     ELSE IF outcome = "ok" /\ block.block_id \in DOMAIN doc
                     THEN doc[block.block_id].children
                     ELSE <<>>
             IN /\ calls' = IF fetch
                            THEN Append(calls, Call("get_block_children", outcome,
                                                    [block_id |-> block.block_id]))
                            ELSE calls
                /\ IF cell_contents = <<>> \/ cell_ids = <<>>
                   THEN w_table' = w_table + 1 /\ UNCHANGED <<w_pc, w_cell_ids, w_idx>>
                   ELSE /\ w_cell_ids' = cell_ids /\ w_idx' = 0 /\ w_pc' = "cells"
                        /\ UNCHANGED w_table
    /\ UNCHANGED <<w_append, w_blocks, w_image_paths, table_plans, created_blocks,
                   resolved_table_blocks, w_ordered_blocks, w_image_blocks, w_i, w_result, file_exists,
                   use_native_api, bl_pc, bl_items>>
    /\ UNCHANGED <<convVars, exVars, cbVars, tbVars, rdVars, srvVars, sdkVars>>

\* writer.py 190-202: the next cell; a cell without content is passed
\* over, the others get a create_blocks call.
WriteCell ==
    /\ w_pc = "cells"
    /\ LET cell_contents == table_plans[w_table].cell_contents
           count == Min(Len(w_cell_ids), Len(cell_contents))
       IN IF w_idx >= count
          THEN /\ w_table' = w_table + 1 /\ w_pc' = "tables"
               /\ UNCHANGED <<w_idx, cb_pc, cb_block_id, cb_children, cb_index, cb_i,
                              current_index, all_created_children>>
          ELSE IF cell_contents[w_idx + 1] = <<>>
          THEN /\ w_idx' = w_idx + 1
               /\ UNCHANGED <<w_table, w_pc, cb_pc, cb_block_id, cb_children, cb_index,
                              cb_i, current_index, all_created_children>>
          ELSE /\ CbCall(w_cell_ids[w_idx + 1], cell_contents[w_idx + 1], -1)
               /\ w_pc' = "filling"
               /\ UNCHANGED <<w_table, w_idx>>
    /\ UNCHANGED <<requests>>
    /\ UNCHANGED <<w_append, w_blocks, w_image_paths, table_plans, created_blocks,
                   resolved_table_blocks, w_cell_ids, w_ordered_blocks, w_image_blocks, w_i, w_result,
                   file_exists, calls, use_native_api, bl_pc, bl_items>>
    /\ UNCHANGED <<convVars, exVars, tbVars, rdVars, srvVars, sdkVars>>

\* writer.py 196-202: the cell's create_blocks call has returned.
WriteCellFilled ==
    /\ w_pc = "filling" /\ cb_pc = "returned"
    /\ cb_pc' = "idle"
    /\ w_idx' = w_idx + 1
    /\ w_pc' = "cells"
    /\ UNCHANGED <<cb_block_id, cb_children, cb_index, cb_i, current_index,
                   all_created_children, requests>>
    /\ UNCHANGED <<w_append, w_blocks, w_image_paths, table_plans, created_blocks,
                   resolved_table_blocks, w_table, w_cell_ids, w_ordered_blocks, w_image_blocks, w_i,
                   w_result, file_exists, calls, use_native_api, bl_pc, bl_items>>
    /\ UNCHANGED <<convVars, exVars, tbVars, rdVars, srvVars, sdkVars>>

\* writer.py 350-355 and 407-408: the tables are done.  With image paths
\* the block list is fetched for _ordered_blocks; without, return.
WriteTablesDone ==
    /\ w_pc = "tables" /\ w_table > ZipLen
    /\ IF w_image_paths # <<>>
       THEN w_pc' = "ordering" /\ FetchCall /\ UNCHANGED w_result
       ELSE w_pc' = "done" /\ w_result' = "returned" /\ UNCHANGED <<bl_pc, bl_items>>
    /\ UNCHANGED <<w_append, w_blocks, w_image_paths, table_plans, created_blocks,
                   resolved_table_blocks, w_table, w_cell_ids, w_idx, w_ordered_blocks, w_image_blocks,
                   w_i, file_exists, calls, use_native_api>>
    /\ UNCHANGED <<convVars, exVars, cbVars, tbVars, rdVars, srvVars, sdkVars>>

\* writer.py 355-360: the listing has returned; the image blocks in
\* document order.
WriteOrdered ==
    /\ w_pc = "ordering" /\ bl_pc = "returned"
    /\ w_ordered_blocks' = _ordered_blocks(bl_items)
    /\ w_image_blocks' = _image_blocks(w_ordered_blocks')
    /\ w_i' = 0
    /\ bl_pc' = "idle"
    /\ w_pc' = "images"
    /\ UNCHANGED <<w_append, w_blocks, w_image_paths, table_plans, created_blocks,
                   resolved_table_blocks, w_table, w_cell_ids, w_idx, w_result,
                   file_exists, calls, use_native_api, bl_items>>
    /\ UNCHANGED <<convVars, exVars, cbVars, tbVars, rdVars, srvVars, sdkVars>>

\* writer.py 355: the listing has raised, and so does write_content.
WriteOrderedRaised ==
    /\ w_pc = "ordering" /\ bl_pc = "raised"
    /\ w_result' = "raised" /\ w_pc' = "done"
    /\ UNCHANGED <<w_append, w_blocks, w_image_paths, table_plans, created_blocks,
                   resolved_table_blocks, w_table, w_cell_ids, w_idx, w_ordered_blocks, w_image_blocks,
                   w_i, file_exists, calls, use_native_api, bl_pc, bl_items>>
    /\ UNCHANGED <<convVars, exVars, cbVars, tbVars, rdVars, srvVars, sdkVars>>

ImageCountOrNone ==
    IF Len(w_image_blocks) # Len(w_image_paths) THEN 0 ELSE Len(w_image_paths)

\* writer.py 362-368
ImageCount == Min(Len(w_image_blocks), Len(w_image_paths))

\* writer.py 370-405: one pass of the image loop, with the outcome of each
\* SDK call it makes.
WriteImage ==
    /\ w_pc = "images" /\ w_i < ImageCount
    /\ \E uploaded \in UploadOutcomes, replaced, deleted \in {"ok", "failed"} :
          LET img_url == w_image_paths[w_i + 1]
              block_id == w_image_blocks[w_i + 1].block_id
              made == _image_calls(w_i + 1, block_id, img_url, img_url \in file_exists,
                                   uploaded, replaced, deleted)
          IN /\ calls' = calls \o made
             /\ doc' = ServerApply(doc, made)
    /\ w_i' = w_i + 1
    /\ UNCHANGED <<w_pc, w_append, w_blocks, w_image_paths, table_plans,
                   created_blocks, resolved_table_blocks, w_table, w_cell_ids, w_idx,
                   w_ordered_blocks, w_image_blocks, w_result, file_exists, use_native_api, bl_pc,
                   bl_items>>
    /\ UNCHANGED <<next_id>>
    /\ UNCHANGED <<convVars, exVars, cbVars, tbVars, rdVars, sdkVars>>

\* writer.py 407-408
WriteReturn ==
    /\ w_pc = "images" /\ w_i >= ImageCount
    /\ w_result' = "returned" /\ w_pc' = "done"
    /\ UNCHANGED <<w_append, w_blocks, w_image_paths, table_plans, created_blocks,
                   resolved_table_blocks, w_table, w_cell_ids, w_idx, w_ordered_blocks, w_image_blocks,
                   w_i, file_exists, calls, use_native_api, bl_pc, bl_items>>
    /\ UNCHANGED <<convVars, exVars, cbVars, tbVars, rdVars, srvVars, sdkVars>>

(***************************************************************************)
(* SpecWrite: one write_content call on a document                         *)
(***************************************************************************)
\* A table of one row and two columns; the second cell holds an image.
TableToken ==
    [type |-> "table",
     children |-> <<[type |-> "table_head",
                     children |-> <<Cell(<<Text(<<"k">>)>>),
                                    Cell(<<Image(LocalUrl2), Text(<<"v">>)>>)>>]>>]

\* A table of one row whose cells hold text alone.
PlainTableToken ==
    [type |-> "table",
     children |-> <<[type |-> "table_head",
                     children |-> <<Cell(<<Text(<<"k">>)>>), Cell(<<Text(<<"v">>)>>)>>]>>]

\* The Markdown written, with the local images it refers to: text and an
\* image; a table and an image; more top-level blocks than one creation
\* request holds, and an image; nothing but a blank line; text alone; a
\* table alone.
WriteDocs ==
    { [tokens |-> <<Paragraph(<<Text(<<"a">>), Image(LocalUrl1)>>)>>,
       images |-> {LocalUrl1}],
      [tokens |-> <<TableToken, Paragraph(<<Image(LocalUrl1)>>)>>,
       images |-> {LocalUrl1, LocalUrl2}],
      [tokens |-> [i \in 1..(chunk_size + 1) |-> Paragraph(<<Text(<<"a">>)>>)]
                      \o <<Paragraph(<<Image(LocalUrl2)>>)>>,
       images |-> {LocalUrl2}],
      [tokens |-> <<[type |-> "blank_line"]>>, images |-> {}],
      [tokens |-> <<Paragraph(<<Text(<<"a">>)>>)>>, images |-> {}],
      [tokens |-> <<PlainTableToken>>, images |-> {}] }

\* What the document holds before the write.
ExistingDocs == {InitialDoc(<<>>), InitialDoc(<<BLOCK_TYPE_IMAGE>>)}

\* The arguments and the surroundings of the call.  use_native_api makes
\* a difference only for Markdown without local image and table.
WriteInit ==
    /\ \E d \in WriteDocs :
          /\ markdown_tokens = d.tokens
          /\ file_exists \in SUBSET d.images
          /\ use_native_api \in (IF d.images = {} THEN BOOLEAN ELSE {TRUE})
    /\ w_append \in BOOLEAN
    /\ doc \in ExistingDocs
    /\ next_id = Len(doc[document_id].children) + 1
    /\ converter_image_paths = <<>> /\ convert_blocks = <<>> /\ convert_images = <<>>
    /\ conv_pc = "input"
    /\ HeapInit
    /\ w_pc = "start" /\ w_blocks = <<>> /\ w_image_paths = <<>>
    /\ table_plans = <<>> /\ created_blocks = <<>> /\ resolved_table_blocks = <<>>
    /\ w_table = 0 /\ w_cell_ids = <<>> /\ w_idx = 0 /\ w_image_blocks = <<>>
    /\ w_ordered_blocks = <<>>
    /\ w_i = 0 /\ w_result = "running" /\ calls = <<>>
    /\ bl_pc = "idle" /\ bl_items = <<>>
    /\ ExIdle /\ CbIdle /\ TbIdle /\ RdIdle
    /\ SdkIdle

WriteNext ==
    \/ WriteConvert
    \/ ClearDocument \/ WriteCreate
    \/ CreateChunkOk \/ CreateChunkUndecodable \/ CreateChunkRejected \/ CreateReturn
    \/ WriteCreated \/ WritePropagate
    \/ FetchPageOk \/ FetchPageFailed \/ WriteResolved
    \/ WriteTable \/ WriteCell \/ WriteCellFilled \/ WriteTablesDone
    \/ WriteOrdered \/ WriteOrderedRaised \/ WriteImage \/ WriteReturn

SpecWrite == WriteInit /\ [][WriteNext]_vars

(***************************************************************************)
(* Claims about the writer                                                 *)
(***************************************************************************)
\* The positions in calls of the calls of one operation.
CallsOf(op) == {k \in 1..Len(calls) : calls[k].op = op}

\* What makes write_content raise by design: the vendor's conversion, a
\* creation request on the document root, the block list of the image
\* phase.
StructuralFailure ==
    \/ \E k \in CallsOf("convert_markdown") : calls[k].outcome = "failed"
    \/ /\ requests # <<>>
       /\ requests[Len(requests)].outcome = "rejected"
       /\ requests[Len(requests)].block_id = document_id
    \/ \E k \in CallsOf("get_document_block_list") : calls[k].for = "ordering"

\* C1: a failure of one table-cell content push or of one image
\* upload/replace never keeps the remaining cells, tables and images from
\* being processed, and write_content returns the created blocks instead
\* of raising.
C1_ItemFailuresIsolated ==
    /\ w_result = "raised" => StructuralFailure
    /\ \A k \in 1..Len(requests) :
          (requests[k].outcome = "rejected" /\ requests[k].block_id # document_id)
              => w_pc # "done"

\* C1 for the images alone: a failed upload, replace or delete never makes
\* write_content raise, and the loop goes on to the next pair.
C1_ImageFailuresIsolated ==
    (\E k \in 1..Len(calls) :
        calls[k].op \in {"upload_image", "replace_image", "delete_block"}
        /\ calls[k].outcome = "failed")
        => /\ w_result # "raised"
           /\ w_pc = "done" => w_i = ImageCount

\* A cell push was rejected and write_content raised with an image still
\* to be processed.
C1_CellWitness ==
    /\ w_result = "raised" /\ w_image_paths # <<>>
    /\ requests[Len(requests)].outcome = "rejected"
    /\ requests[Len(requests)].block_id # document_id

\* The calls made for the i-th (image path, placeholder) pair.
PairCalls(i) == SelectSeq(calls, LAMBDA c : "i" \in DOMAIN c /\ c.i = i)

\* C4: for each processed (image path, placeholder) pair: when the file
\* exists, upload_image with the placeholder as parent, then replace_image
\* with the returned token; when the upload or the replace fails,
\* delete_block on the placeholder; when the file does not exist,
\* delete_block and no upload.  No processed placeholder is left empty
\* without a delete attempt.
C4_PlaceholderFilledOrDeleted ==
    w_pc \in {"images", "done"} =>
        \A i \in 1..w_i :
            LET cs == PairCalls(i)
                block_id == w_image_blocks[i].block_id
                img_url == w_image_paths[i]
                last == cs[Len(cs)]
                filled == Len(cs) = 2 /\ cs[2].op = "replace_image" /\ cs[2].outcome = "ok"
            IN /\ cs # <<>>
               /\ \A k \in 1..Len(cs) : cs[k].block_id = block_id
               /\ img_url \in file_exists =>
                     /\ cs[1].op = "upload_image" /\ cs[1].path = img_url
                     /\ cs[1].parent_node = block_id
                     /\ cs[1].outcome = "ok" =>
                           /\ Len(cs) >= 2 /\ cs[2].op = "replace_image"
                           /\ cs[2].file_token = cs[1].returned
                           /\ cs[2].file_token.path = img_url
                     /\ cs[1].outcome = "failed" =>
                           Len(cs) = 2 /\ cs[2].op = "delete_block"
                     /\ (Len(cs) >= 2 /\ cs[2].op = "replace_image"
                         /\ cs[2].outcome = "failed") =>
                           Len(cs) = 3 /\ cs[3].op = "delete_block"
               /\ img_url \notin file_exists =>
                     Len(cs) = 1 /\ cs[1].op = "delete_block"
               /\ filled \/ last.op = "delete_block"

\* A pair whose upload succeeded and whose replace failed, and a pair
\* whose file does not exist, have both been processed.
C4_Witness ==
    /\ w_result = "returned" /\ w_i = 2
    /\ Len(PairCalls(1)) = 3 /\ PairCalls(1)[2].outcome = "failed"
    /\ Len(PairCalls(2)) = 1

C7_StructuralFailuresAbort ==
    /\ \A k \in 1..Len(requests) :
          requests[k].outcome = "rejected" =>
              /\ k = Len(requests)
              /\ cb_pc = "raised"
              /\ w_pc = "done" => w_result = "raised"
              /\ w_pc \in {"creating", "filling", "done"}
              /\ \A j \in 1..Len(calls) : calls[j].at < k
              /\ requests[k].block_id = document_id =>
                    /\ \A j \in 1..k : requests[j].block_id = document_id
                    /\ w_i = 0 /\ w_image_blocks = <<>>
                    /\ \A j \in 1..Len(calls) :
                          calls[j].op \in {"convert_markdown", "clear_document"}
    /\ bl_pc = "returned" => bl_items = DocList(doc)
    /\ \A k \in CallsOf("get_document_block_list") :
          /\ calls[k].for = "resolve" => resolved_table_blocks = <<>>
          /\ calls[k].for = "ordering" =>
                /\ k = Len(calls) /\ w_image_blocks = <<>> /\ w_i = 0
                /\ (bl_pc = "raised" /\ w_pc = "ordering") \/ w_result = "raised"

\* The second creation request of a document with image paths was
\* rejected and write_content raised.
C7_Witness ==
    /\ w_result = "raised" /\ w_image_paths # <<>>
    /\ Len(requests) = 2 /\ requests[1].outcome = "ok"
    /\ requests[2].outcome = "rejected"

\* The block list of the image phase failed on its second page and
\* write_content raised.
C7_FetchWitness ==
    /\ w_result = "raised" /\ bl_items # <<>> /\ Len(bl_items) < Len(DocList(doc))
    /\ calls[Len(calls)].op = "get_document_block_list"

(***************************************************************************)
(* Claims about the converter                                              *)
(***************************************************************************)
\* The image-type descriptors met in a pre-order walk: the top-level blocks
\* in order, and for a table its cells row-major with each cell's content
\* blocks in order.
CellImages(cell) ==
    SelectSeq(Get(cell, "children", <<>>), LAMBDA b : b.block_type = BLOCK_TYPE_IMAGE)

BlockImages(b) ==
    IF b.block_type = BLOCK_TYPE_IMAGE THEN <<b>>
    ELSE IF b.block_type = BLOCK_TYPE_TABLE
    THEN Concat([i \in 1..Len(Get(b, "children", <<>>)) |-> CellImages(b.children[i])])
    ELSE <<>>

WalkImages(blocks) == Concat([i \in 1..Len(blocks) |-> BlockImages(blocks[i])])

\* C2: after convert returns (blocks, image_paths), the image descriptors
\* of the pre-order walk of blocks are exactly len(image_paths) many, and
\* the k-th of them is the one emitted for image_paths[k].
C2_ImagesAlignWithPaths ==
    conv_pc = "returned" =>
        LET w == WalkImages(convert_blocks)
        IN /\ Len(w) = Len(convert_images)
           /\ \A k \in 1..Len(w) : w[k].emitted_for = k

\* A document with a top-level placeholder, placeholders inside a table,
\* and a remote image that takes no path.
C2_Witness ==
    /\ conv_pc = "returned"
    /\ Len(convert_images) >= 4
    /\ \E i \in 1..Len(convert_blocks) :
          /\ convert_blocks[i].block_type = BLOCK_TYPE_TABLE
          /\ Len(BlockImages(convert_blocks[i])) >= 2
    /\ \E i \in 1..Len(convert_blocks) :
          convert_blocks[i].block_type = BLOCK_TYPE_IMAGE
    /\ \E i \in 1..Len(markdown_tokens) :
          /\ markdown_tokens[i].type = "paragraph"
          /\ \E j \in 1..Len(markdown_tokens[i].children) :
                /\ markdown_tokens[i].children[j].type = "image"
                /\ _is_remote_url(markdown_tokens[i].children[j].attrs.url)

\* C10: every text_run that _extract_text_elements produces from inline
\* content holds at most 2000 characters (the leaves longer than that are
\* split into consecutive runs of at most 2000 characters).
C10_NoRunOverLimit ==
    ex_pc = "returned" =>
        \A i \in 1..Len(ex_elements) :
            "text_run" \in DOMAIN ex_elements[i]
                => Len(ex_elements[i].text_run.content) <= limit

\* The part of C10 that holds: a text or codespan leaf becomes consecutive
\* runs of at most 2000 characters that concatenate to the leaf's content
\* and carry one style bag, the one its wrappers give.
ExpectedStyle(node) ==
    LET ws == WrappersOf(node)
    IN (IF "strong" \in ws THEN [bold |-> TRUE] ELSE <<>>)
       @@ (IF "emphasis" \in ws THEN [italic |-> TRUE] ELSE <<>>)
       @@ (IF "strikethrough" \in ws THEN [strikethrough |-> TRUE] ELSE <<>>)
       @@ (IF "link" \in ws THEN [link |-> [url |-> LocalUrl1]] ELSE <<>>)
       @@ (IF LeafOf(node).type = "codespan" THEN [inline_code |-> TRUE] ELSE <<>>)

C10_LeafChunks ==
    (ex_pc = "returned" /\ LeafOf(ex_children[1]).type \in {"text", "codespan"}) =>
        /\ \A i \in 1..Len(ex_elements) :
              /\ Len(ex_elements[i].text_run.content) <= limit
              /\ ex_elements[i].text_run.text_element_style
                    = ExpectedStyle(ex_children[1])
        /\ Concat([i \in 1..Len(ex_elements) |-> ex_elements[i].text_run.content])
              = LeafOf(ex_children[1]).raw
        /\ Len(ex_elements) = Max(1, (Len(LeafOf(ex_children[1]).raw) + limit - 1) \div limit)

C10_LeafWitness ==
    /\ ex_pc = "returned" /\ LeafOf(ex_children[1]).type = "codespan"
    /\ Len(LeafOf(ex_children[1]).raw) = 2 * limit + 1
    /\ Len(ex_elements) = 3
    /\ WrappersOf(ex_children[1]) = {"link"}

\* The element list of a text-like block, under whichever key holds it.
ElementsOf(b) ==
    LET keys == {k \in DOMAIN b \ {"block_type", "children", "emitted_for"} :
                    "elements" \in DOMAIN b[k]}
    IN IF keys = {} THEN <<>> ELSE b[CHOOSE k \in keys : TRUE].elements

\* A text, heading, list or quote block without elements, at b or below.
RECURSIVE HoldsEmptyTextLike(_)
HoldsEmptyTextLike(b) ==
    \/ b.block_type \in TextLikeTypes /\ ElementsOf(b) = <<>>
    \/ \E i \in 1..Len(Get(b, "children", <<>>)) : HoldsEmptyTextLike(b.children[i])

\* C11: the output of convert holds no text, heading, bullet/ordered/todo
\* or quote block with an empty element list, at any nesting depth (the
\* content blocks of table cells included).
C11_NoEmptyTextBlocks ==
    conv_pc = "returned" =>
        \A i \in 1..Len(convert_blocks) : ~HoldsEmptyTextLike(convert_blocks[i])

\* C11 for the top level alone, where the filter of convert acts.
C11_NoEmptyTopLevel ==
    conv_pc = "returned" =>
        \A i \in 1..Len(convert_blocks) :
            convert_blocks[i].block_type \in TextLikeTypes
                => ElementsOf(convert_blocks[i]) # <<>>

\* A table whose second row lacks its second cell: the cell's content is
\* one text block without elements.
C11_EmptyCellWitness ==
    /\ conv_pc = "returned"
    /\ \E i \in 1..Len(convert_blocks) :
          /\ convert_blocks[i].block_type = BLOCK_TYPE_TABLE
          /\ \E c \in 1..Len(convert_blocks[i].children) :
                convert_blocks[i].children[c].children = <<TextBlock(<<>>)>>

\* The non-empty URLs of the image tokens at or below a token, in
\* encounter order.
RECURSIVE ImageUrls(_)
ImageUrls(token) ==
    IF token.type = "image"
    THEN LET url == Get(Get(token, "attrs", <<>>), "url", <<>>)
         IN IF url = <<>> THEN <<>> ELSE <<url>>
    ELSE LET children == Get(token, "children", <<>>)
         IN Concat([i \in 1..Len(children) |-> ImageUrls(children[i])])

DocImageUrls == Concat([i \in 1..Len(markdown_tokens) |-> ImageUrls(markdown_tokens[i])])

\* The image tokens among the direct children of a node.
DirectImageUrls(node) ==
    LET children == Get(node, "children", <<>>)
        images == SelectSeq(children, LAMBDA c : c.type = "image")
    IN Concat([i \in 1..Len(images) |-> ImageUrls(images[i])])

\* The URLs of the image tokens in the places where the converter looks
\* for them: a top-level image, the children of a paragraph, of the
\* paragraphs of a list item, of a table cell.
HandledImageUrls(token) ==
    LET children == Get(token, "children", <<>>)
    IN CASE token.type = "image" -> ImageUrls(token)
         [] token.type = "paragraph" -> DirectImageUrls(token)
         [] token.type = "list" ->
              Concat([i \in 1..Len(children) |->
                  IF children[i].type # "list_item" THEN <<>>
                  ELSE LET parts == SelectSeq(Get(children[i], "children", <<>>),
                                      LAMBDA p : p.type \in {"paragraph", "block_text"})
                       IN Concat([j \in 1..Len(parts) |-> DirectImageUrls(parts[j])])])
         [] token.type = "table" ->
              LET rows == normalize_rows(token)
              IN Concat([r \in 1..Len(rows) |->
                     Concat([c \in 1..Len(rows[r]) |-> DirectImageUrls(rows[r][c])])])
         [] OTHER -> <<>>

DocHandledImageUrls ==
    Concat([i \in 1..Len(markdown_tokens) |-> HandledImageUrls(markdown_tokens[i])])

\* The text block the converter writes for a remote image.
ImageLiteral(url) ==
    TextBlock(<<TextRun(<<"!", "[", "I", "m", "a", "g", "e", "]", "(">> \o url \o <<")">>,
                        <<>>)>>)

\* The blocks of the output in pre-order, the content blocks of table
\* cells included.
WalkBlocks(blocks) ==
    Concat([i \in 1..Len(blocks) |->
        IF blocks[i].block_type # BLOCK_TYPE_TABLE THEN <<blocks[i]>>
        ELSE Concat([c \in 1..Len(blocks[i].children) |-> blocks[i].children[c].children])])

\* The descriptors the output holds for the image tokens with the given
\* URLs: placeholders and literal references.
ImageDescriptors(urls) ==
    SelectSeq(WalkBlocks(convert_blocks),
              LAMBDA b : \/ b.block_type = BLOCK_TYPE_IMAGE
                         \/ \E k \in 1..Len(urls) : b = ImageLiteral(urls[k]))

\* Each of the image tokens with the given URLs has its one descriptor: a
\* literal reference for a remote URL, a placeholder and a path otherwise.
OneDescriptorEach(urls) ==
    LET emitted == ImageDescriptors(urls)
    IN /\ convert_images = SelectSeq(urls, LAMBDA u : ~_is_remote_url(u))
       /\ Len(emitted) = Len(urls)
       /\ \A k \in 1..Len(urls) :
             IF _is_remote_url(urls[k])
             THEN emitted[k] = ImageLiteral(urls[k])
             ELSE /\ emitted[k].block_type = BLOCK_TYPE_IMAGE
                  /\ emitted[k].image = <<>>
                  /\ convert_images[emitted[k].emitted_for] = urls[k]

\* C12: for every image token with a non-empty URL the converter emits
\* exactly one descriptor: for a remote URL a text block holding the one
\* literal run ![Image](<url>), image_paths unchanged; otherwise an image
\* block with an empty payload, the URL appended once to image_paths.
C12_EveryImageTokenEmits ==
    conv_pc = "returned" => OneDescriptorEach(DocImageUrls)

\* C12 for the documents whose image tokens all stand where the converter
\* looks for them.
C12_HandledImageTokensEmit ==
    (conv_pc = "returned" /\ DocHandledImageUrls = DocImageUrls)
        => OneDescriptorEach(DocImageUrls)

\* A heading with an image among its children was converted.
C12_HeadingImageWitness ==
    /\ conv_pc = "returned"
    /\ \E i \in 1..Len(markdown_tokens) :
          /\ markdown_tokens[i].type = "heading"
          /\ DirectImageUrls(markdown_tokens[i]) # <<>>
    /\ convert_images = <<>>

\* A document with a remote image, local images and a table with images,
\* all where the converter looks for them, was converted.
C12_HandledWitness ==
    /\ conv_pc = "returned" /\ DocHandledImageUrls = DocImageUrls
    /\ \E k \in 1..Len(DocImageUrls) : _is_remote_url(DocImageUrls[k])
    /\ Len(convert_images) >= 4


(***************************************************************************)
(* SpecRoundTrip: convert a Markdown document, render the blocks           *)
(***************************************************************************)
\* The Block object the vendor's client builds from a descriptor: text is
\* a string, and every style attribute exists (absent ones are falsy).
AsStyle(style) ==
    [bold |-> Get(style, "bold", FALSE), italic |-> Get(style, "italic", FALSE),
     strikethrough |-> Get(style, "strikethrough", FALSE),
     inline_code |-> Get(style, "inline_code", FALSE),
     underline |-> Get(style, "underline", FALSE)]
    @@ (IF "link" \in DOMAIN style
        THEN [link |-> [url |-> JoinAll(style.link.url)]] ELSE <<>>)

AsElement(el) ==
    [text_run |->
        [content |-> JoinAll(el.text_run.content)]
        @@ (IF "text_element_style" \in DOMAIN el.text_run
            THEN [text_element_style |-> AsStyle(el.text_run.text_element_style)]
            ELSE <<>>)]

AsPayload(payload) ==
    IF "elements" \in DOMAIN payload
    THEN [k \in DOMAIN payload |->
            IF k = "elements"
            THEN [i \in 1..Len(payload.elements) |-> AsElement(payload.elements[i])]
            ELSE payload[k]]
    ELSE payload

AsBlock(descriptor) ==
    [k \in DOMAIN descriptor |->
        IF k = "block_type" THEN descriptor[k] ELSE AsPayload(descriptor[k])]

\* A list item whose text is one character; nested is what follows the
\* text inside the item (a nested list, or nothing).
ListItem(c, nested) ==
    [type |-> "list_item",
     children |-> <<[type |-> "block_text", children |-> <<Text(<<c>>)>>]>> \o nested]

ListOf(ordered, items) ==
    [type |-> "list", attrs |-> [ordered |-> ordered], children |-> items]

\* Documents of headings, paragraphs, lists (one of them nested), code,
\* quotes and dividers.
RoundTripTokens ==
    {[type |-> "heading", attrs |-> [level |-> l], children |-> <<Text(<<"h">>)>>] :
        l \in 1..6}
    \cup
    { Paragraph(<<Text(<<"p">>), [type |-> "strong", children |-> <<Text(<<"s">>)>>]>>),
      ListOf(FALSE, <<ListItem("a", <<>>), ListItem("b", <<>>)>>),
      ListOf(TRUE, <<ListItem("a", <<>>), ListItem("b", <<>>)>>),
      ListOf(FALSE, <<ListItem("a", <<ListOf(FALSE, <<ListItem("b", <<>>)>>)>>)>>),
      ListOf(TRUE, <<ListItem("a", <<ListOf(FALSE, <<ListItem("b", <<>>)>>)>>),
                     ListItem("c", <<>>)>>),
      [type |-> "block_quote", children |-> <<Paragraph(<<Text(<<"q">>)>>)>>],
      [type |-> "block_code", raw |-> <<"x">>, attrs |-> [info |-> "Python"]],
      [type |-> "block_code", raw |-> <<"x">>, attrs |-> [info |-> "go"]],
      [type |-> "thematic_break"] }

RoundTripInit ==
    /\ \E n \in 0..MaxTokens : markdown_tokens \in [1..n -> RoundTripTokens]
    /\ conv_pc = "input" /\ converter_image_paths = <<>>
    /\ HeapInit
    /\ convert_blocks = <<>> /\ convert_images = <<>>
    /\ ExIdle /\ CbIdle /\ TbIdle /\ RdIdle /\ WIdle /\ SrvIdle
    /\ SdkIdle

\* The blocks convert returned are the document the parser renders: none
\* of them has children, so each is rendered by _render_block_self alone
\* (document.py 187-191 finds no sub-blocks).
RenderConverted ==
    /\ conv_pc = "returned" /\ rd_pc = "idle"
    /\ rd_blocks' = [i \in 1..Len(convert_blocks) |-> AsBlock(convert_blocks[i])]
    /\ rd_pc' = "render"
    /\ UNCHANGED <<last_order_seq, rendered, rd_seen, export_board_metadata, parse_returns>>
    /\ UNCHANGED <<convVars, exVars, cbVars, tbVars, wVars, srvVars, sdkVars>>

RoundTripNext == Convert \/ RenderConverted \/ RenderBlockSelf \/ RenderDone

SpecRoundTrip == RoundTripInit /\ [][RoundTripNext]_vars

(***************************************************************************)
(* C13: the round trip keeps heading levels and list nesting               *)
(***************************************************************************)
\* The headings (with their level) and the list items (with their nesting
\* depth) of a Markdown token list, in document order.
RECURSIVE StructureOf(_, _)
StructureOf(tokens, depth) ==
    IF tokens = <<>> THEN <<>>
    ELSE LET token == Head(tokens)
             here ==
               CASE token.type = "heading" ->
                      <<[kind |-> "heading", n |-> token.attrs.level]>>
                 [] token.type = "list" ->
                      Concat([i \in 1..Len(token.children) |->
                                <<[kind |-> "item", n |-> depth]>>
                                \o StructureOf(token.children[i].children, depth + 1)])
                 [] OTHER -> <<>>
         IN here \o StructureOf(Tail(tokens), depth)

HeadingTypes == BLOCK_TYPE_HEADING1..BLOCK_TYPE_HEADING9

\* What the rendered text shows for block i: the number of '#' before a
\* heading's text, the number of four-space indents before a list item.
RenderedStructureAt(i) ==
    LET block == rd_blocks[i]
        self == _render_block_content(block, rd_seen[i]).text
    IN IF block.block_type \in HeadingTypes
       THEN LET payload == _render_text_payload(
                               block[HeadingKey(block.block_type - BLOCK_TYPE_HEADING1 + 1)])
                levels == {n \in 1..9 : rendered[i] = Repeat("#", n) \o " " \o payload}
            IN <<[kind |-> "heading", n |-> CHOOSE n \in levels : TRUE]>>
       ELSE IF block.block_type \in {BLOCK_TYPE_BULLET, BLOCK_TYPE_ORDERED}
       THEN LET depths == {d \in 0..MaxTokens : rendered[i] = Repeat("    ", d) \o self}
            IN <<[kind |-> "item", n |-> CHOOSE d \in depths : TRUE]>>
       ELSE <<>>

RenderedStructure == Concat([i \in 1..Len(rendered) |-> RenderedStructureAt(i)])

\* C13 (as stated, without the language tags): once the converted blocks of
\* a document of headings, paragraphs, lists, code, quotes and dividers are
\* rendered, the rendered headings have the levels of the document's
\* headings and the rendered list items the nesting depths of its items.
C13_RoundTripKeepsStructure ==
    rd_pc = "done" => RenderedStructure = StructureOf(markdown_tokens, 0)

\* The heading levels alone survive the round trip.
C13_HeadingLevelsKept ==
    rd_pc = "done" =>
        SelectSeq(RenderedStructure, LAMBDA x : x.kind = "heading")
        = SelectSeq(StructureOf(markdown_tokens, 0), LAMBDA x : x.kind = "heading")

\* A document with a nested list item has been converted and rendered.
C13_NestedListWitness ==
    /\ rd_pc = "done"
    /\ \E x \in {StructureOf(markdown_tokens, 0)[i] :
                    i \in 1..Len(StructureOf(markdown_tokens, 0))} :
          x.kind = "item" /\ x.n > 0

(***************************************************************************)
(* C14: when the vendor converts the Markdown                              *)
(***************************************************************************)
\* A top-level table block among the descriptors.
TopLevelTable(blocks) ==
    \E i \in 1..Len(blocks) : blocks[i].block_type = BLOCK_TYPE_TABLE

\* C14: with use_native_api on, once write_content has converted, the
\* vendor's conversion was called if and only if the local conversion of
\* the same Markdown has no image path and no top-level table; otherwise
\* the blocks written are the locally converted ones (with their tables
\* prepared) and the image paths are the locally collected ones.
C14_NativeIffNoImageNoTable ==
    (use_native_api /\ w_pc # "start") =>
        LET local == convert(markdown_tokens)
            plain == local.image_paths = <<>> /\ ~TopLevelTable(local.blocks)
        IN /\ plain <=> CallsOf("convert_markdown") # {}
           /\ plain => Cardinality(CallsOf("convert_markdown")) = 1
           /\ ~plain =>
                /\ w_blocks = _prepare_table_blocks(local.blocks).blocks
                /\ w_image_paths = local.image_paths

\* With use_native_api off the vendor's conversion is never called.
C14_LocalWhenAskedFor == ~use_native_api => CallsOf("convert_markdown") = {}

\* A table without any image was converted with use_native_api on: the
\* local blocks are the ones being written.
C14_TableWitness ==
    /\ use_native_api /\ w_pc \notin {"start", "done"}
    /\ convert(markdown_tokens).image_paths = <<>>
    /\ TopLevelTable(convert(markdown_tokens).blocks)
    /\ w_blocks # <<>>

\* Text alone was converted by the vendor.
C14_NativeWitness ==
    /\ use_native_api /\ w_pc \notin {"start", "done"}
    /\ CallsOf("convert_markdown") # {}

(***************************************************************************)
(* SpecLeaf: rendering headings and leaf blocks whose content is fetched   *)
(***************************************************************************)
MaxLeafBlocks == 2

HeadingBlock(level) ==
    [block_type |-> BLOCK_TYPE_HEADING1 + level - 1]
    @@ (HeadingKey(level) :> [elements |-> <<PlainRun("h")>>])

\* answer is what the vendor answers when the block's content is fetched.
ImageBlock(token, answer) ==
    [block_type |-> BLOCK_TYPE_IMAGE, image |-> [token |-> token], answer |-> answer]

BoardBlock(token, answer) ==
    [block_type |-> BLOCK_TYPE_BOARD, board |-> [token |-> token], answer |-> answer]

FileBlock(name, token, answer) ==
    [block_type |-> BLOCK_TYPE_FILE, file |-> [name |-> name, token |-> token],
     answer |-> answer]

LeafBlocks ==
    {HeadingBlock(l) : l \in 1..(BLOCK_TYPE_HEADING9 - BLOCK_TYPE_HEADING1 + 1)}
    \cup {ImageBlock("img", a) : a \in {"ok", "failed"}}
    \cup {BoardBlock("wb", a) : a \in {"ok", "failed"}}
    \cup {FileBlock("f.pdf", "ft", a) : a \in {"ok", "failed"}}
    \cup {ImageBlock("", "ok"), FileBlock("", "ft", "failed"),
          [block_type |-> BLOCK_TYPE_TODO,
           todo |-> [elements |-> <<PlainRun("t")>>, style |-> [done |-> TRUE]]],
          [block_type |-> BLOCK_TYPE_TODO, todo |-> [elements |-> <<PlainRun("t")>>]],
          [block_type |-> BLOCK_TYPE_QUOTE, quote |-> [elements |-> <<PlainRun("q")>>]],
          [block_type |-> BLOCK_TYPE_DIVIDER],
          [block_type |-> BLOCK_TYPE_TEXT, text |-> [elements |-> <<PlainRun("p")>>]]}

LeafInit ==
    /\ \E n \in 0..MaxLeafBlocks : rd_blocks \in [1..n -> LeafBlocks]
    /\ export_board_metadata \in BOOLEAN /\ parse_returns = <<>>
    /\ rd_pc = "render" /\ last_order_seq = 1 /\ rendered = <<>> /\ rd_seen = <<>>
    /\ ConvIdle /\ ExIdle /\ CbIdle /\ TbIdle /\ WIdle /\ SrvIdle
    /\ SdkIdle

LeafNext == RenderBlockSelf \/ RenderBlockRaised \/ RenderDone

SpecLeaf == LeafInit /\ [][LeafNext]_vars

(***************************************************************************)
(* C15: a failed fetch of leaf content does not abort the render           *)
(***************************************************************************)
\* Block i is an image, a board or a file whose fetch failed.
FetchFailed(i) ==
    /\ rd_blocks[i].block_type \in {BLOCK_TYPE_IMAGE, BLOCK_TYPE_BOARD, BLOCK_TYPE_FILE}
    /\ rd_blocks[i].answer = "failed"

\* The placeholder of a block whose fetch failed: the broken-image marker
\* with the token, the file's name with its token, nothing for a board.
Placeholder(block) ==
    CASE block.block_type = BLOCK_TYPE_IMAGE ->
           "![download failed](" \o block.image.token \o ")"
      [] block.block_type = BLOCK_TYPE_FILE ->
           "(file) " \o (IF block.file.name = "" THEN "unnamed" ELSE block.file.name)
           \o " (token: " \o Backtick \o block.file.token \o Backtick \o ")"
      [] OTHER -> ""

\* Every block was rendered, the failed ones as their placeholder and the
\* others as they render on their own.
AllRendered ==
    /\ Len(rendered) = Len(rd_blocks)
    /\ \A i \in 1..Len(rd_blocks) :
          rendered[i] = IF FetchFailed(i) THEN Placeholder(rd_blocks[i])
                        ELSE _render_block_content(rd_blocks[i], rd_seen[i]).text

\* C15 (as stated): the render is never aborted, and at its end every block
\* is rendered, a block whose fetch failed as its placeholder or as empty
\* text.
C15_FailedFetchNeverAborts ==
    /\ rd_pc # "raised"
    /\ rd_pc = "done" => AllRendered

\* With the board metadata export off, the claim holds: a fetch the vendor
\* answers with a failure degrades, and the render goes to its end.
C15_AnsweredFailuresDegrade ==
    /\ ~export_board_metadata => rd_pc # "raised"
    /\ rd_pc = "done" => AllRendered

\* A failed image download followed by another block, both rendered.
C15_DegradedWitness ==
    /\ rd_pc = "done" /\ Len(rd_blocks) = MaxLeafBlocks
    /\ FetchFailed(1) /\ rd_blocks[1].block_type = BLOCK_TYPE_IMAGE
    /\ rendered[MaxLeafBlocks] # ""

\* The render was aborted at a board, after an earlier block was rendered.
C15_AbortedWitness == rd_pc = "raised" /\ Len(rendered) > 0

(***************************************************************************)
(* C16: the heading markers                                                *)
(***************************************************************************)
\* The level of heading block i, 0 for another block.
HeadingLevel(i) ==
    IF rd_blocks[i].block_type \in HeadingTypes
    THEN rd_blocks[i].block_type - BLOCK_TYPE_HEADING1 + 1 ELSE 0

HeadingText(i) == _render_text_payload(rd_blocks[i][HeadingKey(HeadingLevel(i))])

\* C16 (as stated): a heading of level 1..9 renders as min(level, 6) '#',
\* a space and the heading text.
C16_MarkersClampedToSix ==
    \A i \in 1..Len(rendered) :
        HeadingLevel(i) > 0 =>
            rendered[i] = Repeat("#", Min(HeadingLevel(i), 6)) \o " " \o HeadingText(i)

\* What the renderer does: as many '#' as the level, up to nine.
C16_MarkersEqualLevel ==
    \A i \in 1..Len(rendered) :
        HeadingLevel(i) > 0 =>
            rendered[i] = Repeat("#", HeadingLevel(i)) \o " " \o HeadingText(i)

\* A heading of a level above six has been rendered.
C16_DeepHeadingWitness ==
    \E i \in 1..Len(rendered) : HeadingLevel(i) > 6

(***************************************************************************)
(* SpecPrepare: _prepare_table_blocks on its own                           *)
(***************************************************************************)
\* The content of cell i: one text block, told apart by its length.
CellContent(i) == <<TextBlock(<<TextRun(TextOf(i), <<>>)>>)>>

\* A table descriptor of the given size with n cell descriptors, which may
\* be fewer or more than row_size * column_size.
TableDescriptor(row_size, column_size, n) ==
    [block_type |-> BLOCK_TYPE_TABLE,
     table |-> [property |-> [row_size |-> row_size, column_size |-> column_size]],
     children |-> [i \in 1..n |-> [block_type |-> BLOCK_TYPE_TABLE_CELL,
                                   table_cell |-> <<>>,
                                   children |-> CellContent(i)]]]

PrepareBlocks ==
    UNION {{TableDescriptor(r, c, n) : n \in (r * c - 1)..(r * c + 1)} :
              r \in 1..MaxRows, c \in 1..MaxCols}
    \cup {TextBlock(<<TextRun(<<"p">>, <<>>)>>)}

PrepareInit ==
    /\ \E n \in 0..MaxTokens : convert_blocks \in [1..n -> PrepareBlocks]
    /\ markdown_tokens = <<>> /\ converter_image_paths = <<>> /\ convert_images = <<>>
    /\ conv_pc = "returned"
    /\ HeapInit
    /\ ExIdle /\ CbIdle /\ TbIdle /\ RdIdle /\ WIdle /\ SrvIdle
    /\ SdkIdle

\* writer.py 298: blocks, table_plans = self._prepare_table_blocks(blocks)
PrepareTableBlocks ==
    /\ w_pc = "idle" /\ conv_pc = "returned"
    /\ LET prepared == _prepare_table_blocks(convert_blocks)
       IN /\ w_blocks' = prepared.blocks
          /\ table_plans' = prepared.table_plans
    /\ w_pc' = "prepared"
    /\ UNCHANGED <<w_append, w_image_paths, created_blocks, resolved_table_blocks,
                   w_table, w_cell_ids, w_idx, w_ordered_blocks, w_image_blocks, w_i, w_result,
                   file_exists, calls, use_native_api, bl_pc, bl_items>>
    /\ UNCHANGED <<convVars, exVars, cbVars, tbVars, rdVars, srvVars, sdkVars>>

SpecPrepare == PrepareInit /\ [][PrepareTableBlocks]_vars

(***************************************************************************)
(* C17: the table descriptors and their fill plans after the preparation   *)
(***************************************************************************)
\* The positions of the tables among the blocks given to the preparation.
TablePositions ==
    {i \in 1..Len(convert_blocks) : convert_blocks[i].block_type = BLOCK_TYPE_TABLE}

\* The number of tables up to position i: the index of table i's plan.
PlanIndex(i) == Cardinality({j \in TablePositions : j <= i})

ExpectedCells(i) ==
    convert_blocks[i].table.property.row_size
    * convert_blocks[i].table.property.column_size

\* The plan of the table at position i has one content list per cell of
\* the grid, cell j's being what the descriptor held for cell j (row-major)
\* and empty where the descriptor held no cell j.
PlanSized(i) ==
    LET cell_contents == table_plans[PlanIndex(i)].cell_contents
        given == convert_blocks[i].children
    IN /\ Len(cell_contents) = ExpectedCells(i)
       /\ \A j \in 1..ExpectedCells(i) :
             cell_contents[j] = IF j <= Len(given) THEN given[j].children ELSE <<>>

\* C17 (as stated): after the preparation every table descriptor has
\* row_size * column_size cell descriptors without nested children as its
\* children, and its plan holds row_size * column_size content lists in
\* row-major order.
C17_ChildrenAreEmptyCells ==
    w_pc = "prepared" =>
        \A i \in TablePositions :
            /\ "children" \in DOMAIN w_blocks[i]
            /\ Len(w_blocks[i].children) = ExpectedCells(i)
            /\ \A j \in 1..Len(w_blocks[i].children) :
                  /\ w_blocks[i].children[j].block_type = BLOCK_TYPE_TABLE_CELL
                  /\ "children" \notin DOMAIN w_blocks[i].children[j]
            /\ PlanSized(i)

\* C17 (amended): after the preparation every table descriptor is the one
\* given without its children key, every other block is unchanged, there
\* is one plan per table in their order, and each plan holds
\* row_size * column_size content lists in row-major order, padded with
\* empty lists or truncated.
C17_NoChildrenPlanSized ==
    w_pc = "prepared" =>
        /\ Len(w_blocks) = Len(convert_blocks)
        /\ Len(table_plans) = Cardinality(TablePositions)
        /\ \A i \in 1..Len(convert_blocks) :
              IF i \in TablePositions
              THEN /\ "children" \notin DOMAIN w_blocks[i]
                   /\ w_blocks[i].block_type = BLOCK_TYPE_TABLE
                   /\ w_blocks[i].table = convert_blocks[i].table
                   /\ PlanSized(i)
              ELSE w_blocks[i] = convert_blocks[i]

\* Two tables were prepared, the first with fewer cell descriptors than its
\* grid has cells, the second with more.
C17_PaddedTruncatedWitness ==
    /\ w_pc = "prepared" /\ TablePositions = {1, 2}
    /\ 0 < Len(convert_blocks[1].children)
    /\ Len(convert_blocks[1].children) < ExpectedCells(1)
    /\ Len(convert_blocks[2].children) > ExpectedCells(2)

(***************************************************************************)
(* C18: where the cell ids of a created table come from                    *)
(***************************************************************************)
\* The cell ids the creation response carries for the created table with
\* this id: its children, or else its table.cells.
EmbeddedCellIds(table_block_id) ==
    LET created == SelectSeq(_created_table_blocks(created_blocks),
                             LAMBDA b : b.block_id = table_block_id)
    IN IF created = <<>> THEN <<>>
       ELSE IF created[1].children # <<>> THEN created[1].children
       ELSE created[1].table.cells

\* C18 (as stated): get_block_children is called for a table only when the
\* creation response carries no cell ids for it.
C18_NoFetchWhenEmbedded ==
    \A k \in CallsOf("get_block_children") : EmbeddedCellIds(calls[k].block_id) = <<>>

\* What holds: get_block_children is not called for a table whose creation
\* response carries cell ids as long as the table is not among the blocks
\* the block-list fetch returned; the cell fill then uses the embedded ids.
C18_EmbeddedUsedWithoutListing ==
    /\ \A k \in CallsOf("get_block_children") :
          \/ EmbeddedCellIds(calls[k].block_id) = <<>>
          \/ Resolved(calls[k].block_id) # <<>>
    /\ (w_pc \in {"cells", "filling"}
        /\ Resolved(_created_table_blocks(created_blocks)[w_table].block_id) = <<>>
        /\ EmbeddedCellIds(_created_table_blocks(created_blocks)[w_table].block_id) # <<>>)
       => w_cell_ids = EmbeddedCellIds(_created_table_blocks(created_blocks)[w_table].block_id)

\* The cells of a table are being filled from the ids its creation
\* response carried, the block-list fetch having failed.
C18_EmbeddedWitness ==
    /\ w_pc = "filling" /\ CallsOf("get_block_children") = {}
    /\ Resolved(_created_table_blocks(created_blocks)[w_table].block_id) = <<>>
    /\ w_cell_ids = EmbeddedCellIds(_created_table_blocks(created_blocks)[w_table].block_id)

\* get_block_children was called for a table whose creation response
\* carried its cell ids.
C18_FetchedAnywayWitness ==
    \E k \in CallsOf("get_block_children") : EmbeddedCellIds(calls[k].block_id) # <<>>

(***************************************************************************)
(* C19: count mismatches between resolved ids and planned items            *)
(***************************************************************************)
\* The creation requests sent for table cells, by their place in the
\* history.
CellRequests == {k \in 1..Len(requests) : requests[k].block_id # document_id}

\* The fill plan of the document's table (the documents written hold one
\* table at most) and the number of (cell id, content) pairs.
CellPlan == table_plans[Len(table_plans)].cell_contents

CellCount == Min(Len(w_cell_ids), Len(CellPlan))

\* The position of a cell request's parent among the cell ids.
CellIndexOf(k) == CHOOSE j \in 1..Len(w_cell_ids) : w_cell_ids[j] = requests[k].block_id

\* The image-phase calls, by their place in the history.
ImageCalls == {k \in 1..Len(calls) : "i" \in DOMAIN calls[k]}

\* The table phase, the image phase are over and write_content did not
\* raise in them.
CellsDone == w_pc \in {"ordering", "images"} \/ w_result = "returned"

ImagesDone == w_result = "returned" /\ w_image_paths # <<>>

\* C19: a count mismatch never raises (write_content raises only after a
\* conversion, a creation request or the block listing failed); the cell
\* requests go to cell id j with content j for j <= min(ids, contents), in
\* increasing order of j, and the image calls to image block i with path i
\* for i <= min(blocks, paths), in increasing order of i; once a phase is
\* over every such pair was processed (a cell without content needs no
\* request), and nothing at an index beyond the minimum was touched.
C19_MismatchProcessesPrefix ==
    /\ w_result = "raised" =>
          \/ StructuralFailure
          \/ (requests # <<>> /\ requests[Len(requests)].outcome = "rejected")
    /\ \A k \in CellRequests :
          /\ \E j \in 1..CellCount : w_cell_ids[j] = requests[k].block_id
          /\ requests[k].children = CellPlan[CellIndexOf(k)]
          /\ \A l \in CellRequests : l < k => CellIndexOf(l) < CellIndexOf(k)
    /\ (CellsDone /\ table_plans # <<>> /\ w_cell_ids # <<>>) =>
          \A j \in 1..CellCount :
              CellPlan[j] # <<>> => \E k \in CellRequests : CellIndexOf(k) = j
    /\ \A k \in ImageCalls :
          /\ calls[k].i \in 1..Min(Len(w_image_blocks), Len(w_image_paths))
          /\ calls[k].block_id = w_image_blocks[calls[k].i].block_id
          /\ "path" \in DOMAIN calls[k] => calls[k].path = w_image_paths[calls[k].i]
          /\ \A l \in ImageCalls : l < k => calls[l].i <= calls[k].i
    /\ ImagesDone =>
          \A i \in 1..Min(Len(w_image_blocks), Len(w_image_paths)) :
              \E k \in ImageCalls : calls[k].i = i

\* write_content returned after an image phase with more image blocks
\* than paths, each path having been processed.
C19_MoreBlocksWitness ==
    /\ ImagesDone /\ Len(w_image_blocks) > Len(w_image_paths)
    /\ ImageCalls # {}

\* write_content returned after fewer image blocks than paths were found
\* and fewer cell ids than planned cell contents.
C19_FewerIdsWitness ==
    /\ ImagesDone /\ 0 < Len(w_image_blocks) /\ Len(w_image_blocks) < Len(w_image_paths)
    /\ table_plans # <<>> /\ 0 < Len(w_cell_ids) /\ Len(w_cell_ids) < Len(CellPlan)
    /\ CellRequests # {}

(***************************************************************************)
(* C20: which placeholder a path is uploaded into                          *)
(***************************************************************************)
\* The position, in image_paths, of the path for which the converter
\* emitted the descriptor this block was created from; 0 for a block that
\* was not created from an image descriptor of this write.
CreatedFor(block_id) ==
    IF block_id \in DOMAIN doc /\ "emitted_for" \in DOMAIN doc[block_id].desc
    THEN doc[block_id].desc.emitted_for ELSE 0

\* The pairs of the image phase whose block is still in the document.
PairsAtHand ==
    {i \in 1..Min(Len(w_image_blocks), Len(w_image_paths)) :
        w_image_blocks[i].block_id \in DOMAIN doc}

\* C20 (as stated): in the image phase path i is paired with the
\* placeholder created from the descriptor the converter emitted for path
\* i, so only a tail of the paths can be without a placeholder.
C20_PathMeetsItsPlaceholder ==
    w_pc = "images" =>
        \A i \in PairsAtHand : CreatedFor(w_image_blocks[i].block_id) = i

\* What holds: when the image blocks found are as many as the paths and
\* each was created from a descriptor of this write, path i meets its own
\* placeholder.
C20_PairsMatchWhenAllCreated ==
    (/\ w_pc = "images" /\ Len(w_image_blocks) = Len(w_image_paths)
     /\ \A i \in PairsAtHand : CreatedFor(w_image_blocks[i].block_id) > 0)
    => \A i \in PairsAtHand : CreatedFor(w_image_blocks[i].block_id) = i

\* A path was uploaded into the placeholder of another path, the
\* placeholder of its own never having been created.
C20_WrongPlaceholderWitness ==
    /\ w_pc = "images"
    /\ \E k \in 1..Len(calls) :
          /\ calls[k].op = "replace_image" /\ calls[k].outcome = "ok"
          /\ CreatedFor(calls[k].block_id) > calls[k].i

\* A path was uploaded into an image block the document held before the
\* write.
C20_OldImageWitness ==
    /\ w_pc = "images"
    /\ \E k \in 1..Len(calls) :
          /\ calls[k].op = "replace_image" /\ calls[k].outcome = "ok"
          /\ CreatedFor(calls[k].block_id) = 0

(***************************************************************************)
(* C21: an appending write and the blocks the document held before         *)
(***************************************************************************)
\* The image-phase calls a step adds to the history.
NewImageCalls == {k \in (Len(calls) + 1)..Len(calls') : "i" \in DOMAIN calls'[k]}

\* C21 (as stated): in an appending write every upload_image (by its
\* parent), replace_image and delete_block call is made on a block this
\* write created, i.e. on a block that, when the call is made, is a
\* placeholder created from an image descriptor of this write.
C21_AppendTouchesOwnBlocks ==
    [][w_append => \A k \in NewImageCalls : CreatedFor(calls'[k].block_id) > 0]_vars

\* What holds: the blocks passed to these calls are image blocks of the
\* listing, taken in document order from its start, whoever created them.
C21_TouchesListedImageBlocks ==
    \A k \in ImageCalls :
        /\ calls[k].i <= Len(w_image_blocks)
        /\ calls[k].block_id = w_image_blocks[calls[k].i].block_id
        /\ calls[k].op = "upload_image" => calls[k].parent_node = calls[k].block_id

\* An appending write has deleted or overwritten an image block that was
\* in the document before it, and left its own placeholder untouched.
C21_OldBlockTouchedWitness ==
    /\ w_append /\ w_result = "returned"
    /\ Len(w_image_blocks) > Len(w_image_paths)
    /\ \E k \in ImageCalls : calls[k].outcome = "ok" /\ calls[k].op # "upload_image"
    /\ \A k \in ImageCalls :
          calls[k].block_id # w_image_blocks[Len(w_image_blocks)].block_id

(***************************************************************************)
(* C22: the order of the phases of write_content                           *)
(***************************************************************************)
\* The phases in the order the claim gives them: conversion and table
\* preparation, clearing, top-level creation, (resolving the created
\* tables,) table-cell pushes, the listing that finds the image
\* placeholders, image uploads, the end.
PhaseRank(pc) ==
    CASE pc = "start" -> 0
      [] pc = "clear" -> 1
      [] pc \in {"create", "creating"} -> 2
      [] pc = "resolve" -> 3
      [] pc \in {"tables", "cells", "filling"} -> 4
      [] pc = "ordering" -> 5
      [] pc = "images" -> 6
      [] pc = "done" -> 7

\* The calls and the creation requests a step adds to the histories.
NewCalls == {k \in (Len(calls) + 1)..Len(calls') : TRUE}

NewRequests == {k \in (Len(requests) + 1)..Len(requests') : TRUE}

\* C22: write_content never goes back to an earlier phase; the conversion
\* and the preparation are made in the first phase only; clear_document is
\* called only when append is off, in its own phase and before any
\* creation request; creation requests on the root are sent in the
\* creation phase only and those on table cells in the cell phase only;
\* the image placeholders are listed and the image calls made only after
\* that, with no creation request following.
C22_PhasesInOrder ==
    [][/\ PhaseRank(w_pc') >= PhaseRank(w_pc)
       /\ (w_blocks' # w_blocks \/ table_plans' # table_plans) => w_pc = "start"
       /\ w_pc' = "clear" => ~w_append
       /\ \A k \in NewCalls :
             /\ calls'[k].op = "convert_markdown" => w_pc = "start"
             /\ calls'[k].op = "clear_document" =>
                   ~w_append /\ w_pc = "clear" /\ requests = <<>>
             /\ calls'[k].op = "get_block_children" => w_pc = "tables"
             /\ "i" \in DOMAIN calls'[k] => w_pc = "images"
       /\ \A k \in NewRequests :
             IF requests'[k].block_id = document_id
             THEN w_pc = "creating" ELSE w_pc = "filling"
       /\ w_image_blocks' # w_image_blocks => w_pc = "ordering"
       /\ w_pc \in {"ordering", "images", "done"} => requests' = requests]_vars

\* A write that went through every phase: the document was cleared, blocks
\* and table cells were created, and an image was uploaded.
C22_AllPhasesWitness ==
    /\ w_result = "returned" /\ ~w_append
    /\ CallsOf("clear_document") # {}
    /\ CellRequests # {}
    /\ \E k \in ImageCalls : calls[k].op = "replace_image" /\ calls[k].outcome = "ok"

(***************************************************************************)
(* DocumentParser._recursive_render (document.py 167-217)                  *)
(***************************************************************************)
\* The vendor's codes of the callout and the quote container
\* (BlockType.CALLOUT, BlockType.QUOTE_CONTAINER).
BLOCK_TYPE_CALLOUT == 19
BLOCK_TYPE_QUOTE_CONTAINER == 34

\* text.split("\n"), on a sequence of characters
RECURSIVE SplitLines(_)
SplitLines(text) ==
    LET breaks == {i \in 1..Len(text) : text[i] = "\n"}
    IN IF breaks = {} THEN <<text>>
       ELSE LET i == CHOOSE b \in breaks : \A c \in breaks : b <= c
            IN <<SubSeq(text, 1, i - 1)>> \o SplitLines(SubSeq(text, i + 1, Len(text)))

\* sep.join(texts)
RECURSIVE Join(_, _)
Join(sep, texts) ==
    IF texts = <<>> THEN <<>>
    ELSE IF Len(texts) = 1 THEN texts[1]
    ELSE texts[1] \o sep \o Join(sep, Tail(texts))

\* "\n".join([f"{prefix}{line}" for line in text.split("\n")])
PrefixLines(prefix, text) ==
    LET lines == SplitLines(text)
    IN Join(<<"\n">>, [i \in 1..Len(lines) |-> prefix \o lines[i]])

QuotePrefix == <<">", " ">>

ListIndent == <<" ", " ", " ", " ">>

_children_prefix_quotes_only(bt) ==
    IF bt \in {BLOCK_TYPE_QUOTE, BLOCK_TYPE_QUOTE_CONTAINER, BLOCK_TYPE_CALLOUT}
    THEN QuotePrefix ELSE None

\* document.py 200-215: what goes before each line of the children's
\* output; None when the output is appended as it is.
_children_prefix(bt) ==
    IF bt \in {BLOCK_TYPE_QUOTE, BLOCK_TYPE_QUOTE_CONTAINER, BLOCK_TYPE_CALLOUT}
    THEN QuotePrefix
    ELSE IF bt \in {BLOCK_TYPE_BULLET, BLOCK_TYPE_ORDERED, BLOCK_TYPE_TODO}
    THEN ListIndent
    ELSE None

\* document.py 167-217.  blocks_map[id].self is what _render_block_self
\* returns for the block and blocks_map[id].grid what _render_table does.
RECURSIVE _recursive_render(_, _)
_recursive_render(blocks_map, id) ==
    LET block == blocks_map[id]
        self_content == block.self
        sub == block.children
        texts == [k \in 1..Len(sub) |-> _recursive_render(blocks_map, sub[k])]
        children_content == SelectSeq(texts, LAMBDA t : t # <<>>)
        joined_children == Join(<<"\n", "\n">>, children_content)
        prefix == _children_prefix(block.block_type)
        content == IF joined_children = <<>> THEN self_content
                   ELSE IF prefix # None
                   THEN self_content \o <<"\n">> \o PrefixLines(prefix, joined_children)
                   ELSE self_content \o <<"\n", "\n">> \o joined_children
    IN IF block.block_type = BLOCK_TYPE_TABLE THEN block.grid ELSE Strip(content)

(***************************************************************************)
(* SpecTree: rendering a block tree                                        *)
(***************************************************************************)
MaxTreeBlocks == 3

\* The kinds of block of the trees, each with what the block renders to on
\* its own: list items, quotes, a quote container (nothing), a text, an
\* empty text, a code block (three lines) and a table with its grid.
TreeKinds ==
    {[block_type |-> BLOCK_TYPE_BULLET, self |-> <<"-", " ", "b">>],
     [block_type |-> BLOCK_TYPE_ORDERED, self |-> <<"1", ".", " ", "o">>],
     [block_type |-> BLOCK_TYPE_TODO, self |-> <<"-", " ", "[", " ", "]", " ", "t">>],
     [block_type |-> BLOCK_TYPE_QUOTE, self |-> <<">", " ", "q">>],
     [block_type |-> BLOCK_TYPE_CALLOUT, self |-> <<">", " ", "c">>],
     [block_type |-> BLOCK_TYPE_QUOTE_CONTAINER, self |-> <<>>],
     [block_type |-> BLOCK_TYPE_TEXT, self |-> <<"p">>],
     [block_type |-> BLOCK_TYPE_TEXT, self |-> <<>>],
     [block_type |-> BLOCK_TYPE_CODE, self |-> <<"f", "\n", "x", "\n", "f">>],
     [block_type |-> BLOCK_TYPE_TABLE, self |-> <<>>, grid |-> <<"|", "g", "|">>]}

\* The trees of n blocks: block 1 is the root, the parent of a block has a
\* smaller id, and the children of a block are in the order of their ids.
Trees(n) ==
    {[i \in 1..n |->
         kind[i] @@ [children |-> SelectSeq([k \in 1..n |-> k],
                                            LAMBDA k : k > 1 /\ parent[k] = i)]] :
        kind \in [1..n -> TreeKinds],
        parent \in {p \in [1..n -> 0..n] : \A k \in 1..n : p[k] < k /\ (k > 1 => p[k] > 0)}}

TreeInit ==
    /\ \E n \in 1..MaxTreeBlocks : rd_blocks \in Trees(n)
    /\ rd_pc = "tree" /\ last_order_seq = 1 /\ rendered = <<>> /\ rd_seen = <<>>
    /\ export_board_metadata = FALSE /\ parse_returns = <<>>
    /\ ConvIdle /\ ExIdle /\ CbIdle /\ TbIdle /\ WIdle /\ SrvIdle
    /\ SdkIdle

\* The recursion over the tree; rendered[i] is what the call for block i
\* returns.
RecursiveRender ==
    /\ rd_pc = "tree"
    /\ rendered' = [i \in 1..Len(rd_blocks) |-> _recursive_render(rd_blocks, i)]
    /\ rd_pc' = "done"
    /\ UNCHANGED <<rd_blocks, last_order_seq, rd_seen, export_board_metadata, parse_returns>>
    /\ UNCHANGED <<convVars, exVars, cbVars, tbVars, wVars, srvVars, sdkVars>>

SpecTree == TreeInit /\ [][RecursiveRender]_vars

(***************************************************************************)
(* C23: how the children's output is attached                              *)
(***************************************************************************)
QuoteTypes == {BLOCK_TYPE_QUOTE, BLOCK_TYPE_QUOTE_CONTAINER, BLOCK_TYPE_CALLOUT}

ListItemTypes == {BLOCK_TYPE_BULLET, BLOCK_TYPE_ORDERED, BLOCK_TYPE_TODO}

\* The lines of the joined output of block i's rendered children.
ChildLines(i) ==
    LET sub == rd_blocks[i].children
        texts == SelectSeq([k \in 1..Len(sub) |-> rendered[sub[k]]], LAMBDA t : t # <<>>)
    IN IF texts = <<>> THEN <<>> ELSE SplitLines(Join(<<"\n", "\n">>, texts))

\* What the claim puts before a line of the children's output.
ExpectedPrefix(bt) ==
    IF bt \in QuoteTypes THEN <<">", " ">>
    ELSE IF bt \in ListItemTypes THEN <<" ", " ", " ", " ">>
    ELSE <<>>

\* The lines of block i's own content in the output, with the blank line
\* that follows them for a block that is neither quote nor list item.
ExpectedOwnLines(i) ==
    IF rd_blocks[i].self = <<>> THEN <<>>
    ELSE SplitLines(rd_blocks[i].self)
         \o (IF rd_blocks[i].block_type \in QuoteTypes \cup ListItemTypes
             THEN <<>> ELSE << <<>> >>)

\* n times the four spaces
RECURSIVE Indent(_)
Indent(n) == IF n = 0 THEN <<>> ELSE <<" ", " ", " ", " ">> \o Indent(n - 1)

\* The tree is a chain of list items, each the only child of the one before.
ListChain ==
    /\ \A i \in 1..Len(rd_blocks) : rd_blocks[i].block_type \in ListItemTypes
    /\ \A i \in 1..(Len(rd_blocks) - 1) : rd_blocks[i].children = <<i + 1>>

\* C23: a table renders as its grid; the output of any other block with
\* rendered children is its own content followed by every line of the
\* children's joined output, prefixed with "> " under a quote, quote
\* container or callout, with four spaces under a bullet, ordered or todo
\* item, and unprefixed after one blank line under any other block; so the
\* item under d list-item ancestors starts with 4*d spaces.
C23_ChildrenPrefixedByParentType ==
    rd_pc = "done" /\ Len(rendered) = Len(rd_blocks) =>
        /\ \A i \in 1..Len(rd_blocks) :
              IF rd_blocks[i].block_type = BLOCK_TYPE_TABLE
              THEN rendered[i] = rd_blocks[i].grid
              ELSE ChildLines(i) # <<>> =>
                     LET out == SplitLines(rendered[i])
                         kids == ChildLines(i)
                         own == Len(out) - Len(kids)
                     IN /\ own >= 0
                        /\ SubSeq(out, 1, own) = ExpectedOwnLines(i)
                        /\ \A j \in 1..Len(kids) :
                              out[own + j] =
                                  ExpectedPrefix(rd_blocks[i].block_type) \o kids[j]
        /\ ListChain =>
              \A k \in 1..Len(rd_blocks) :
                  SplitLines(rendered[1])[k] = Indent(k - 1) \o rd_blocks[k].self

\* A chain of list items as deep as the bound allows has been rendered.
C23_NestedListWitness ==
    /\ rd_pc = "done" /\ ListChain /\ Len(rd_blocks) = MaxTreeBlocks
    /\ Len(rendered) = MaxTreeBlocks

\* A quote container whose rendered child is a table with a child of its
\* own.
C23_QuoteTableWitness ==
    /\ rd_pc = "done" /\ Len(rendered) = Len(rd_blocks)
    /\ rd_blocks[1].block_type = BLOCK_TYPE_QUOTE_CONTAINER
    /\ ChildLines(1) # <<>>
    /\ \E i \in 1..Len(rd_blocks) :
          rd_blocks[i].block_type = BLOCK_TYPE_TABLE /\ rd_blocks[i].children # <<>>

(***************************************************************************)
(* SpecMake: _make_table and _make_paragraph on one token                  *)
(***************************************************************************)
MaxTableRows == 2
MaxRowCells == 2
MaxInline == 3

\* The cells of the model: without inline content, with a text, with a
\* local image before a text, with an image that has no URL.
CellKinds ==
    {Cell(<<>>), Cell(<<Text(<<"k">>)>>),
     Cell(<<Image(LocalUrl1), Text(<<"v">>)>>), Cell(<<Image(<<>>)>>)}

\* The rows of the model: up to MaxRowCells cells of one kind.
RowsOfCells == {[i \in 1..n |-> cell] : n \in 0..MaxRowCells, cell \in CellKinds}

\* The table heads mistune builds: none, without children, the cells of
\* one row, or table_row tokens (a stray cell among them).
TableHeads ==
    {<<>>,
     <<[type |-> "table_head", children |-> <<>>]>>,
     <<[type |-> "table_head",
        children |-> <<Cell(<<Text(<<"h">>)>>), Cell(<<>>), Cell(<<Text(<<"g">>)>>)>>]>>,
     <<[type |-> "table_head",
        children |-> <<[type |-> "table_row", children |-> <<Cell(<<Text(<<"h">>)>>)>>],
                       Cell(<<Text(<<"s">>)>>)>>]>>}

TableTokens ==
    {[type |-> "table",
      children |-> head \o <<[type |-> "table_body",
                              children |-> [i \in 1..Len(rows) |->
                                  [type |-> "table_row", children |-> rows[i]]]]>>] :
        head \in TableHeads,
        rows \in UNION {[1..n -> RowsOfCells] : n \in 0..MaxTableRows}}

\* The inline children of a paragraph: texts, a styled text, a soft break,
\* and images with a local, a remote and an empty URL.
InlineKinds ==
    {Text(<<"a">>), [type |-> "codespan", raw |-> <<"c">>],
     [type |-> "strong", children |-> <<Text(<<"s">>)>>],
     [type |-> "softbreak"],
     Image(LocalUrl1), Image(RemoteUrl), Image(<<>>)}

ParagraphTokens ==
    {Paragraph(children) : children \in UNION {[1..n -> InlineKinds] : n \in 0..MaxInline}}

MakeInit ==
    /\ \E token \in TableTokens \cup ParagraphTokens : markdown_tokens = <<token>>
    /\ conv_pc = "token" /\ converter_image_paths = <<>>
    /\ HeapInit
    /\ convert_blocks = <<>> /\ convert_images = <<>>
    /\ ExIdle /\ CbIdle /\ TbIdle /\ RdIdle /\ WIdle /\ SrvIdle
    /\ SdkIdle

\* _convert_token on a table token (md_to_blocks.py 180-181)
MakeTable ==
    /\ conv_pc = "token" /\ markdown_tokens[1].type = "table"
    /\ LET r == _make_table(markdown_tokens[1], converter_image_paths)
       IN /\ convert_blocks' = r.blocks
          /\ convert_images' = r.image_paths
          /\ converter_image_paths' = r.image_paths
    /\ conv_pc' = "returned"
    /\ UNCHANGED <<markdown_tokens, heapVars>>
    /\ UNCHANGED <<exVars, cbVars, tbVars, rdVars, wVars, srvVars, sdkVars>>

\* _convert_token on a paragraph token (md_to_blocks.py 166-167)
MakeParagraph ==
    /\ conv_pc = "token" /\ markdown_tokens[1].type = "paragraph"
    /\ LET r == _make_paragraph(markdown_tokens[1], converter_image_paths)
       IN /\ convert_blocks' = r.blocks
          /\ convert_images' = r.image_paths
          /\ converter_image_paths' = r.image_paths
    /\ conv_pc' = "returned"
    /\ UNCHANGED <<markdown_tokens, heapVars>>
    /\ UNCHANGED <<exVars, cbVars, tbVars, rdVars, wVars, srvVars, sdkVars>>

MakeNext == MakeTable \/ MakeParagraph

SpecMake == MakeInit /\ [][MakeNext]_vars

(***************************************************************************)
(* C24: the table descriptor                                               *)
(***************************************************************************)
\* The table token of a returned _make_table call, its normalized rows and
\* the descriptor returned.
TableMade == conv_pc = "returned" /\ markdown_tokens[1].type = "table"

MadeRows == normalize_rows(markdown_tokens[1])

MadeTable == convert_blocks[1]

\* A content block without the history field of the model.
Bare(block) == [k \in DOMAIN block \ {"emitted_for"} |-> block[k]]

\* The content blocks of the cell at row r, column c (both from 1).
MadeCell(r, c) ==
    MadeTable.children[(r - 1) * MadeTable.table.property.column_size + c]

\* C24: row_size is the number of normalized rows, column_size the largest
\* number of cells in a row, the children are row_size*column_size table
\* cells in row-major order, every cell holds at least one content block,
\* and a position missing from a short row holds one text block without
\* elements.
C24_TableDescriptorShape ==
    TableMade =>
        LET rows == MadeRows
            R == MadeTable.table.property.row_size
            C == MadeTable.table.property.column_size
        IN /\ Len(convert_blocks) = 1 /\ MadeTable.block_type = BLOCK_TYPE_TABLE
           /\ R = Len(rows)
           /\ \A i \in 1..Len(rows) : Len(rows[i]) <= C
           /\ rows # <<>> => \E i \in 1..Len(rows) : Len(rows[i]) = C
           /\ rows = <<>> => C = 0
           /\ Len(MadeTable.children) = R * C
           /\ \A r \in 1..R : \A c \in 1..C :
                 /\ MadeCell(r, c).block_type = BLOCK_TYPE_TABLE_CELL
                 /\ Len(MadeCell(r, c).children) >= 1
                 /\ IF c > Len(rows[r])
                    THEN MadeCell(r, c).children = <<TextBlock(<<>>)>>
                    ELSE LET own == table_cell_children(rows[r][c].children, <<>>).blocks
                         IN /\ Len(MadeCell(r, c).children) = Len(own)
                            /\ \A k \in 1..Len(own) :
                                  Bare(MadeCell(r, c).children[k]) = Bare(own[k])

\* A table of a flat three-cell head and two body rows, both shorter, the
\* second without cells.
C24_ShortRowWitness ==
    /\ TableMade
    /\ Len(MadeRows) = 3 /\ Len(MadeRows[1]) = 3
    /\ Len(MadeRows[2]) = 1 /\ Len(MadeRows[3]) = 0
    /\ MadeRows[2][1] = Cell(<<Image(LocalUrl1), Text(<<"v">>)>>)
    /\ Len(MadeTable.children) = 9

(***************************************************************************)
(* C25: the blocks of a paragraph                                          *)
(***************************************************************************)
ParagraphMade == conv_pc = "returned" /\ markdown_tokens[1].type = "paragraph"

\* The positions of the image tokens among the children, in order.
ImagePositions(children) ==
    SelectSeq([i \in 1..Len(children) |-> i], LAMBDA i : children[i].type = "image")

\* The children before the first image (k = 1), between image k-1 and
\* image k, or after the last one (k = number of images + 1).
Segment(children, k) ==
    LET at == ImagePositions(children)
        from == IF k = 1 THEN 1 ELSE at[k - 1] + 1
        to == IF k > Len(at) THEN Len(children) ELSE at[k] - 1
    IN SubSeq(children, from, to)

\* What a block of the output stands for: an image with its URL, or a text
\* block with its elements.
MadeFrom(block) ==
    IF block.block_type = BLOCK_TYPE_IMAGE
    THEN [kind |-> "image", url |-> convert_images[block.emitted_for]]
    ELSE IF block = ImageLiteral(RemoteUrl)
    THEN [kind |-> "image", url |-> RemoteUrl]
    ELSE [kind |-> "text", elements |-> block.text.elements]

\* The text block of a segment, none when the segment yields no element.
SegmentBlock(segment) ==
    LET elements == _extract_text_elements(segment, <<>>)
    IN IF elements = <<>> THEN <<>> ELSE <<[kind |-> "text", elements |-> elements]>>

\* The blocks the statement asks for: the segments' text blocks with the
\* images between them; without_url says whether an image whose URL is
\* empty has a block of its own too.
SplitAtImages(children, without_url) ==
    LET at == ImagePositions(children)
    IN Concat([k \in 1..(Len(at) + 1) |->
          SegmentBlock(Segment(children, k))
          \o (IF k > Len(at) THEN <<>>
              ELSE LET url == children[at[k]].attrs.url
                   IN IF url = <<>> /\ ~without_url THEN <<>>
                      ELSE <<[kind |-> "image", url |-> url]>>)])

C25_SplitWitness ==
    /\ ParagraphMade
    /\ markdown_tokens[1].children
          = <<Text(<<"a">>), Image(LocalUrl1), [type |-> "codespan", raw |-> <<"c">>]>>
    /\ Len(convert_blocks) = 3

MaxOrderBlocks == 4
MaxEdges == 3

\* The id of the k-th block of a list whose d-th block is the document's
\* root (d = 0: the list does not hold it).
OrderId(k, d) == IF k = d THEN document_id ELSE k

\* The children lists of n blocks with e entries in all: edges[j] is
\* <<parent position, child id>>, the entries of one parent in a row.  The
\* child ids 0..n include one id the list does not hold.
ChildrenLists(n) ==
    {edges \in UNION {[1..e -> (1..n) \X (0..n)] : e \in 0..MaxEdges} :
        \A j \in 1..(Len(edges) - 1) : edges[j][1] <= edges[j + 1][1]}

ChildrenOf(edges, k) ==
    LET own == SelectSeq(edges, LAMBDA edge : edge[1] = k)
    IN [j \in 1..Len(own) |-> own[j][2]]

\* A block list get_document_block_list may return: the root at position
\* d, a block of type 1 at position page (0: nowhere), the children lists
\* given by edges.
OrderList(n, d, page, edges) ==
    [k \in 1..n |->
        [kind |-> "object", block_id |-> OrderId(k, d),
         block_type |-> IF k = page THEN BLOCK_TYPE_PAGE ELSE BLOCK_TYPE_IMAGE,
         parent_id |-> document_id, children |-> ChildrenOf(edges, k)]]

\* Where the root and the block of type 1 stand in a list of n blocks, as
\* <<d, page>>: the root first and of type 1; the root last, after a block
\* of type 1; no root and a block of type 1 last; in a list of one block,
\* neither.
RootShapes(n) ==
    {<<1, 1>>, <<n, 1>>, <<0, n>>} \cup (IF n = 1 THEN {<<0, 0>>} ELSE {})

\* write_content has reached writer.py 355 and the block list is there.
OrderInit ==
    /\ w_pc = "ordering" /\ bl_pc = "returned"
    /\ \E n \in 1..MaxOrderBlocks : \E shape \in RootShapes(n) :
          \E edges \in ChildrenLists(n) :
              bl_items = OrderList(n, shape[1], shape[2], edges)
    /\ w_append = TRUE /\ w_blocks = <<>> /\ w_image_paths = <<LocalUrl1>>
    /\ table_plans = <<>> /\ created_blocks = <<>> /\ resolved_table_blocks = <<>>
    /\ w_table = 0 /\ w_cell_ids = <<>> /\ w_idx = 0 /\ w_image_blocks = <<>>
    /\ w_ordered_blocks = <<>>
    /\ w_i = 0 /\ w_result = "running" /\ file_exists = {} /\ calls = <<>>
    /\ use_native_api = TRUE
    /\ ConvIdle /\ ExIdle /\ CbIdle /\ TbIdle /\ RdIdle /\ SrvIdle
    /\ SdkIdle

SpecOrder == OrderInit /\ [][WriteOrdered]_vars

(***************************************************************************)
(* C26: the walk of _ordered_blocks                                        *)
(***************************************************************************)
ListIds == {bl_items[k].block_id : k \in 1..Len(bl_items)}

ListBlock(id) == bl_items[CHOOSE k \in 1..Len(bl_items) : bl_items[k].block_id = id]

\* The children of a block that the list holds.
ListedChildren(id) ==
    SelectSeq(ListBlock(id).children, LAMBDA c : c \in ListIds)

\* The root the statement names, as a set: the block with the document's
\* id, else the first block of type 1, else none.
RootIds ==
    LET pages == {k \in 1..Len(bl_items) : bl_items[k].block_type = BLOCK_TYPE_PAGE}
    IN IF document_id \in ListIds THEN {document_id}
       ELSE IF pages = {} THEN {}
       ELSE {bl_items[CHOOSE k \in pages : \A j \in pages : k <= j].block_id}

\* The blocks reachable from the given ones over the children lists.
RECURSIVE ReachableFrom(_)
ReachableFrom(S) ==
    LET T == S \cup UNION {{ListedChildren(id)[j] : j \in 1..Len(ListedChildren(id))} :
                              id \in S}
    IN IF T = S THEN S ELSE ReachableFrom(T)

OrderedIds == [k \in 1..Len(w_ordered_blocks) |-> w_ordered_blocks[k].block_id]

\* The children of the j-th returned block that are not among the first
\* k - 1 returned blocks.
Unvisited(j, k) ==
    SelectSeq(ListedChildren(OrderedIds[j]),
              LAMBDA c : \A i \in 1..(k - 1) : OrderedIds[i] # c)

\* C26: _ordered_blocks returns, whatever the children lists hold, each
\* block reachable from the root exactly once, in depth-first pre-order:
\* the root first, and every later block is the first child not yet
\* returned of the last returned block that still has one.  The root is
\* the block with the document's id, else the first block of type 1.
C26_PreOrderOfReachable ==
    w_pc = "images" =>
        /\ \A i, j \in 1..Len(OrderedIds) : OrderedIds[i] = OrderedIds[j] => i = j
        /\ {OrderedIds[k] : k \in 1..Len(OrderedIds)} = ReachableFrom(RootIds)
        /\ \A k \in 1..Len(OrderedIds) : w_ordered_blocks[k] = ListBlock(OrderedIds[k])
        /\ OrderedIds # <<>> => OrderedIds[1] \in RootIds
        /\ \A k \in 2..Len(OrderedIds) :
              LET open == {j \in 1..(k - 1) : Unvisited(j, k) # <<>>}
              IN /\ open # {}
                 /\ OrderedIds[k]
                       = Unvisited(CHOOSE j \in open : \A i \in open : i <= j, k)[1]

\* A walk whose root lists a missing id and then a child that points back
\* at the root.
C26_CycleWitness ==
    /\ w_pc = "images" /\ Len(w_ordered_blocks) = 2
    /\ \E k \in 1..Len(bl_items) :
          /\ bl_items[k].block_id = OrderedIds[1]
          /\ Len(bl_items[k].children) = 2
          /\ bl_items[k].children[1] \notin ListIds
    /\ \E k \in 1..Len(bl_items) :
          /\ bl_items[k].block_id # OrderedIds[1]
          /\ Len(bl_items[k].children) = 1
          /\ bl_items[k].children[1] = OrderedIds[1]

\* A list without the document's id: the walk starts at its block of type 1.
C26_PageRootWitness ==
    /\ w_pc = "images" /\ document_id \notin ListIds
    /\ Len(w_ordered_blocks) > 1
    /\ w_ordered_blocks[1].block_type = BLOCK_TYPE_PAGE
    /\ bl_items[1].block_type # BLOCK_TYPE_PAGE

(***************************************************************************)
(* SpecSdk: clear_document and upload_image calls on one document          *)
(***************************************************************************)
MaxSdkCalls == 2
MaxClearChildren == 4
MaxBatch == 2
MaxClearRounds == 2

SdkInit ==
    /\ \E n \in 0..MaxClearChildren : doc = InitialDoc([k \in 1..n |-> BLOCK_TYPE_TEXT])
    /\ next_id = MaxClearChildren + 1
    /\ SdkIdle
    /\ ConvIdle /\ ExIdle /\ CbIdle /\ TbIdle /\ RdIdle /\ WIdle

\* No call of the SDK is in progress.
SdkFree ==
    /\ cl_pc \in {"idle", "returned", "raised"}
    /\ up_pc \in {"idle", "returned", "raised"}
    /\ sdk_calls < MaxSdkCalls

\* A variant of the loop test of clear_document that allows one round
\* more.
_clear_again_once_more(n, max_rounds) == n <= max_rounds

\* sdk.py 616: while rounds < max_rounds
_clear_again(n, max_rounds) == n < max_rounds

\* sdk.py 594-614: the call, up to the loop
ClearCall ==
    /\ SdkFree
    /\ \E b \in 1..MaxBatch, m \in 0..MaxClearRounds :
          cl_batch_size' = b /\ cl_max_rounds' = m
    /\ cl_pc' = "loop" /\ rounds' = 0 /\ deleted_total' = 0 /\ cl_log' = <<>>
    /\ sdk_calls' = sdk_calls + 1
    /\ UNCHANGED <<up_pc, up_parent_node, up_attempts, up_token>>
    /\ UNCHANGED <<convVars, exVars, cbVars, tbVars, rdVars, wVars, srvVars>>

\* sdk.py 616-645: a round whose deletion succeeds
ClearRoundDeleted ==
    /\ cl_pc = "loop" /\ _clear_again(rounds, cl_max_rounds)
    /\ LET children == doc[document_id].children
           delete_count == Min(Len(children), cl_batch_size)
       IN /\ children # <<>>
          /\ doc' = ServerDelete(doc, {children[k] : k \in 1..delete_count})
          /\ deleted_total' = deleted_total + delete_count
          /\ cl_log' = Append(cl_log, [children |-> Len(children), outcome |-> "deleted"])
    /\ rounds' = rounds + 1
    /\ UNCHANGED <<sdk_calls, cl_pc, cl_batch_size, cl_max_rounds, next_id>>
    /\ UNCHANGED <<up_pc, up_parent_node, up_attempts, up_token>>
    /\ UNCHANGED <<convVars, exVars, cbVars, tbVars, rdVars, wVars>>

\* sdk.py 616-643: a round that leaves the loop: the root has no children
\* (630-632) or delete_blocks returns False (642-643).
ClearRoundStopped ==
    /\ cl_pc = "loop" /\ _clear_again(rounds, cl_max_rounds)
    /\ LET children == doc[document_id].children
       IN cl_log' = Append(cl_log,
              [children |-> Len(children),
               outcome |-> IF children = <<>> THEN "no_children" ELSE "delete_failed"])
    /\ rounds' = rounds + 1
    /\ cl_pc' = "returned"
    /\ UNCHANGED <<sdk_calls, cl_batch_size, cl_max_rounds, deleted_total>>
    /\ UNCHANGED <<up_pc, up_parent_node, up_attempts, up_token>>
    /\ UNCHANGED <<convVars, exVars, cbVars, tbVars, rdVars, wVars, srvVars>>

\* sdk.py 618 with 203-205: get_document_block_list raises, and so does
\* clear_document.
ClearRoundRaised ==
    /\ cl_pc = "loop" /\ _clear_again(rounds, cl_max_rounds)
    /\ cl_log' = Append(cl_log, [children |-> Len(doc[document_id].children),
                                 outcome |-> "list_raised"])
    /\ rounds' = rounds + 1
    /\ cl_pc' = "raised"
    /\ UNCHANGED <<sdk_calls, cl_batch_size, cl_max_rounds, deleted_total>>
    /\ UNCHANGED <<up_pc, up_parent_node, up_attempts, up_token>>
    /\ UNCHANGED <<convVars, exVars, cbVars, tbVars, rdVars, wVars, srvVars>>

\* sdk.py 616, 647: the rounds are used up.
ClearExhausted ==
    /\ cl_pc = "loop" /\ ~_clear_again(rounds, cl_max_rounds)
    /\ cl_pc' = "returned"
    /\ UNCHANGED <<sdk_calls, cl_batch_size, cl_max_rounds, rounds, deleted_total, cl_log>>
    /\ UNCHANGED <<up_pc, up_parent_node, up_attempts, up_token>>
    /\ UNCHANGED <<convVars, exVars, cbVars, tbVars, rdVars, wVars, srvVars>>

\* A variant of the second attempt's parent that keeps the placeholder.
_second_parent_same(parent_node) == [parent_type |-> "docx_image", node |-> parent_node]

\* sdk.py 712: _try_upload("doc_image", document_id)
_second_parent(parent_node) == [parent_type |-> "doc_image", node |-> document_id]

\* sdk.py 652-681: the call, up to the first attempt
UploadCall ==
    /\ SdkFree
    /\ \E node \in 1..MaxClearChildren : up_parent_node' = node
    /\ up_pc' = "first" /\ up_attempts' = <<>> /\ up_token' = None
    /\ sdk_calls' = sdk_calls + 1
    /\ UNCHANGED <<cl_pc, cl_batch_size, cl_max_rounds, rounds, deleted_total, cl_log>>
    /\ UNCHANGED <<convVars, exVars, cbVars, tbVars, rdVars, wVars, srvVars>>

\* sdk.py 708-710: _try_upload("docx_image", parent_node)
UploadFirst ==
    /\ up_pc = "first"
    /\ \E accepted \in BOOLEAN :
          LET token == IF accepted
                       THEN upload_image(LocalUrl1, up_parent_node, "docx_image")
                       ELSE None
          IN /\ up_attempts' = Append(up_attempts,
                    [parent_type |-> "docx_image", node |-> up_parent_node,
                     ok |-> accepted])
             /\ up_token' = token
             /\ up_pc' = IF accepted THEN "returned" ELSE "second"
    /\ UNCHANGED <<sdk_calls, up_parent_node>>
    /\ UNCHANGED <<cl_pc, cl_batch_size, cl_max_rounds, rounds, deleted_total, cl_log>>
    /\ UNCHANGED <<convVars, exVars, cbVars, tbVars, rdVars, wVars, srvVars>>

\* sdk.py 712-716: the second attempt, then the raise
UploadSecond ==
    /\ up_pc = "second"
    /\ \E accepted \in BOOLEAN :
          LET token == IF accepted
                       THEN upload_image(LocalUrl1, up_parent_node, "doc_image")
                       ELSE None
          IN /\ up_attempts' = Append(up_attempts,
                    _second_parent(up_parent_node) @@ [ok |-> accepted])
             /\ up_token' = token
             /\ up_pc' = IF accepted THEN "returned" ELSE "raised"
    /\ UNCHANGED <<sdk_calls, up_parent_node>>
    /\ UNCHANGED <<cl_pc, cl_batch_size, cl_max_rounds, rounds, deleted_total, cl_log>>
    /\ UNCHANGED <<convVars, exVars, cbVars, tbVars, rdVars, wVars, srvVars>>

SdkNext ==
    \/ ClearCall \/ ClearRoundDeleted \/ ClearRoundStopped \/ ClearRoundRaised
    \/ ClearExhausted \/ UploadCall \/ UploadFirst \/ UploadSecond

SpecSdk == SdkInit /\ [][SdkNext]_vars

(***************************************************************************)
(* C27: the rounds of clear_document                                       *)
(***************************************************************************)
\* The children the root had when the call began.
ClearStart ==
    IF cl_log = <<>> THEN Len(doc[document_id].children) ELSE cl_log[1].children

RECURSIVE DeletedIn(_)
DeletedIn(log) ==
    IF log = <<>> THEN 0
    ELSE DeletedIn(Tail(log))
         + (IF Head(log).outcome = "deleted"
            THEN Min(Head(log).children, cl_batch_size) ELSE 0)

\* Every deletion of the call succeeded and the rounds allowed suffice.
ClearCanFinish ==
    /\ \A k \in 1..Len(cl_log) : cl_log[k].outcome # "delete_failed"
    /\ ClearStart <= cl_batch_size * cl_max_rounds

C27_ListRaisedWitness ==
    /\ cl_pc = "raised" /\ Len(cl_log) = 2 /\ ClearCanFinish
    /\ doc[document_id].children # <<>>

MaxParses == 2

\* document.py 135-150: the next parse call on the parser.  Nothing in
\* parse or below it sets last_order_seq back (document.py 93-94 is in
\* __init__); the block map is the one _preprocess built.
ParseAgain ==
    /\ rd_pc = "done" /\ Len(parse_returns) < MaxParses
    /\ rd_pc' = "render" /\ rendered' = <<>> /\ rd_seen' = <<>>
    /\ UNCHANGED <<rd_blocks, last_order_seq, export_board_metadata, parse_returns>>
    /\ UNCHANGED <<convVars, exVars, cbVars, tbVars, wVars, srvVars, sdkVars>>

ParseNext == RenderBlockSelf \/ RenderDone \/ ParseAgain

SpecParse == RenderInit /\ [][ParseNext]_vars

(***************************************************************************)
(* C29: parse() twice                                                      *)
(***************************************************************************)
\* C29 as stated: every parse call on one parser returns the same
\* Markdown.
C29_SameMarkdownEachParse ==
    \A i, j \in 1..Len(parse_returns) : parse_returns[i] = parse_returns[j]

\* The document has an ordered item numbered "auto".
HasAutoItem ==
    \E k \in 1..Len(rd_blocks) :
        /\ rd_blocks[k].block_type = BLOCK_TYPE_ORDERED
        /\ "style" \in DOMAIN rd_blocks[k].ordered
        /\ rd_blocks[k].ordered.style.sequence = "auto"

\* What remains of C29: without an item numbered "auto" every parse call
\* returns the same Markdown.
C29_SameWithoutAuto ==
    ~HasAutoItem => C29_SameMarkdownEachParse

\* Two parse calls over one "auto" item have returned "2. a" and "3. a".
C29_RenumberedWitness ==
    /\ Len(parse_returns) = 2 /\ rd_blocks = <<OrderedItem("auto")>>
    /\ parse_returns[1] = <<"2. a">> /\ parse_returns[2] = <<"3. a">>

(***************************************************************************)
(* SpecReconvert: convert called again and again on one instance           *)
(***************************************************************************)
MaxConverts == 2

\* Tokens with local images, a remote image and an image without URL, in
\* a paragraph and in a table.
ReconvertTokens ==
    {Paragraph(<<Text(<<"a">>), Image(LocalUrl1), Image(RemoteUrl)>>),
     Paragraph(<<Image(LocalUrl2), Image(<<>>), Image(LocalUrl1)>>),
     TableToken}

\* A variant of _new_list that empties the list self.image_paths refers
\* to and keeps it.
_cleared_list(heap, ref) == [lists |-> [heap EXCEPT ![ref] = <<>>], ref |-> ref]

\* md_to_blocks.py 102: self.image_paths = [] makes a new list object.
_new_list(heap, ref) == [lists |-> Append(heap, <<>>), ref |-> Len(heap) + 1]

\* MarkdownToBlocks.convert (md_to_blocks.py 93-140) on an instance that
\* may have converted before: the paths are appended to the list
\* self.image_paths refers to, and that list is the one returned.
ConvertCall ==
    /\ conv_pc \in {"input", "returned"} /\ Len(convert_returns) < MaxConverts
    /\ \E n \in 0..MaxTokens : \E tokens \in [1..n -> ReconvertTokens] :
          LET fresh == _new_list(lists, image_paths_ref)
              r == convert(tokens)
          IN /\ markdown_tokens' = tokens
             /\ lists' = [fresh.lists EXCEPT ![fresh.ref] = @ \o r.image_paths]
             /\ image_paths_ref' = fresh.ref
             /\ converter_image_paths' = r.image_paths
             /\ convert_blocks' = r.blocks
             /\ convert_images' = r.image_paths
             /\ convert_returns' = Append(convert_returns,
                    [tokens |-> tokens, blocks |-> r.blocks,
                     image_paths |-> fresh.ref, returned |-> lists'[fresh.ref]])
    /\ conv_pc' = "returned"
    /\ UNCHANGED <<exVars, cbVars, tbVars, rdVars, wVars, srvVars, sdkVars>>

SpecReconvert == ConvInit /\ [][ConvertCall]_vars

(***************************************************************************)
(* C30: the image paths of successive convert calls                        *)
(***************************************************************************)
\* The local URLs of the image tokens the converter handles in a token
\* list, in encounter order.
LocalUrlsOf(tokens) ==
    SelectSeq(Concat([i \in 1..Len(tokens) |-> HandledImageUrls(tokens[i])]),
              LAMBDA url : ~_is_remote_url(url))

\* C30: the list a convert call returned holds the local image URLs of
\* that call's tokens and no others, in encounter order, both when it is
\* returned and after every later call on the instance.
C30_PathsOfOwnCallOnly ==
    \A k \in 1..Len(convert_returns) :
        /\ convert_returns[k].returned = LocalUrlsOf(convert_returns[k].tokens)
        /\ lists[convert_returns[k].image_paths] = convert_returns[k].returned

\* A second call with other images has returned, and the list of the first
\* call still holds the first call's paths.
C30_SecondCallWitness ==
    /\ Len(convert_returns) = 2
    /\ convert_returns[1].returned = <<LocalUrl1>>
    /\ convert_returns[2].returned = <<LocalUrl2, LocalUrl1, LocalUrl2>>
    /\ lists[convert_returns[1].image_paths] = <<LocalUrl1>>
====
